---- MODULE Spec2Model ----
(***************************************************************************)
(* Verification model of the stock screening pipeline:                     *)
(*   - StrategyResult / BaseStrategy      (analyze/strategies/base_strategy.py)    *)
(*   - StrategyRegistry                   (analyze/strategies/strategy_registry.py)*)
(*   - JValueStrategy                     (analyze/strategies/j_value_strategy.py) *)
(*   - VolumePatternStrategy              (analyze/strategies/volume_pattern_strategy.py) *)
(*   - ScoringEngine                      (analyze/core/scoring_engine.py)         *)
(*   - StockAnalyzer                      (analyze/core/stock_analyzer.py)         *)
(*   - APIRateLimiter, _calculate_kdj, update_today_data (download/data_downloader.py) *)
(*                                                                         *)
(* Numbers are exact rationals <<n, d>> with d > 0; <<0, 0>> is NaN and    *)
(* <<1, 0>>, <<-1, 0>> are +inf, -inf.  Floating-point rounding is not     *)
(* modelled.                                                               *)
(***************************************************************************)
EXTENDS Integers, Sequences, FiniteSets, TLC

VARIABLES
    strategies,   \* StrategyRegistry._strategies: insertion-ordered dict, as a sequence of strategy objects
    ret,          \* trace and return value of the most recent registry evaluation call
    strat,        \* a built-in strategy instance (JValueStrategy or VolumePatternStrategy) called directly
    df,           \* the stock_data frame handed to it
    out,          \* the arguments and the outcome of the most recent direct call
    engine,       \* the ScoringEngine: scoring_method and min_qualified_strategies
    clock,        \* time.time(), in half seconds
    limiter,      \* the APIRateLimiter: last_call_time and the holder of its lock
    threads,      \* the position of each thread inside wait_if_needed, with its local values
    granted,      \* the values last_call_time has been set to, in order
    disk          \* BASE_DATA_DIR: the date directories and their parquet files

\* the state of the download package
download == <<clock, limiter, threads, granted, disk>>

vars == <<strategies, ret, strat, df, out, engine, download>>

(***************************************************************************)
(* Exact arithmetic                                                        *)
(***************************************************************************)
Abs(x) == IF x < 0 THEN -x ELSE x

RECURSIVE GCD(_, _)
GCD(a, b) == IF b = 0 THEN a ELSE GCD(b, a % b)

Sign(x) == IF x > 0 THEN 1 ELSE IF x < 0 THEN -1 ELSE 0

\* the number n/d in lowest terms; d = 0 gives inf / NaN as float division of arrays does
R(n, d) ==
    IF d = 0 THEN <<Sign(n), 0>>
    ELSE LET g == GCD(Abs(n), Abs(d))
             s == IF d < 0 THEN -1 ELSE 1
         IN  <<(s * n) \div g, (s * d) \div g>>

NaN == <<0, 0>>
IsNaN(x) == x[1] = 0 /\ x[2] = 0
IsInf(x) == x[1] # 0 /\ x[2] = 0
I(n) == <<n, 1>>

\* comparisons: every comparison with NaN is false, as for floats
RLt(a, b) == ~IsNaN(a) /\ ~IsNaN(b) /\
             IF a[2] = 0 /\ b[2] = 0 THEN a[1] < b[1] ELSE
             IF a[2] = 0 THEN a[1] < 0 ELSE
             IF b[2] = 0 THEN b[1] > 0 ELSE a[1] * b[2] < b[1] * a[2]
REq(a, b) == ~IsNaN(a) /\ ~IsNaN(b) /\ a = b
RLe(a, b) == RLt(a, b) \/ REq(a, b)
RGt(a, b) == RLt(b, a)
RGe(a, b) == RLe(b, a)

RAdd(a, b) ==
    IF IsNaN(a) \/ IsNaN(b) THEN NaN
    ELSE IF a[2] = 0 /\ b[2] = 0 THEN (IF a[1] = b[1] THEN a ELSE NaN)
    ELSE IF a[2] = 0 THEN a
    ELSE IF b[2] = 0 THEN b
    ELSE R(a[1] * b[2] + b[1] * a[2], a[2] * b[2])
RNeg(a) == <<-a[1], a[2]>>
RSub(a, b) == RAdd(a, RNeg(b))
RMul(a, b) ==
    IF IsNaN(a) \/ IsNaN(b) THEN NaN
    ELSE IF a[2] = 0 \/ b[2] = 0 THEN <<Sign(a[1]) * Sign(b[1]), 0>>
    ELSE R(a[1] * b[1], a[2] * b[2])
RDiv(a, b) ==
    IF IsNaN(a) \/ IsNaN(b) THEN NaN
    ELSE IF b[2] = 0 THEN (IF a[2] = 0 THEN NaN ELSE I(0))
    ELSE IF a[2] = 0 THEN <<a[1] * (IF b[1] < 0 THEN -1 ELSE 1), 0>>
    ELSE R(a[1] * b[2], a[2] * b[1])
\* Python's min(a, b): b if b < a else a
RMin(a, b) == IF RLt(b, a) THEN b ELSE a

(***************************************************************************)
(* StrategyResult                                                          *)
(***************************************************************************)
\* details = {}
NoDetails == [empty |-> TRUE]

\* the outcome of a call: either a value or a raised exception
Returned(v) == [raises |-> FALSE, error |-> "", value |-> v]
NoValue == [strategy_name |-> "", is_qualified |-> FALSE, score |-> I(0),
            confidence |-> I(0), details |-> NoDetails, reason |-> <<>>]
Raised(e) == [raises |-> TRUE, error |-> e, value |-> NoValue]

\* no direct call made yet
NoArgs == [is_qualified |-> FALSE, score |-> I(0), confidence |-> I(0)]
NoOut == [op |-> "none", args |-> NoArgs, outcome |-> Returned(NoValue)]

NewStrategyResult_NoCheck(strategy_name, is_qualified, score, confidence, details, reason) ==
    Returned([strategy_name |-> strategy_name, is_qualified |-> is_qualified,
              score |-> score, confidence |-> confidence,
              details |-> details, reason |-> reason])

\* StrategyResult(...) followed by __post_init__
NewStrategyResult(strategy_name, is_qualified, score, confidence, details, reason) ==
    IF ~(RLe(I(0), score) /\ RLe(score, I(100)))
        THEN Raised("ValueError: score")
    ELSE IF ~(RLe(I(0), confidence) /\ RLe(confidence, I(1)))
        THEN Raised("ValueError: confidence")
    ELSE Returned([strategy_name |-> strategy_name, is_qualified |-> is_qualified,
                   score |-> score, confidence |-> confidence,
                   details |-> details, reason |-> reason])

(***************************************************************************)
(* BaseStrategy                                                            *)
(***************************************************************************)
DefaultThreshold == 100

\* BaseStrategy.__init__
NewStrategy(name, weight, enabled, is_filter_strategy, threshold_score) ==
    [name |-> name, weight |-> weight, enabled |-> enabled,
     is_filter_strategy |-> is_filter_strategy, threshold_score |-> threshold_score]

set_filter_strategy(s, is_filter, has_threshold, threshold_score) ==
    [s EXCEPT !.is_filter_strategy = is_filter,
              !.threshold_score = IF has_threshold THEN threshold_score ELSE @]

set_enabled(s, enabled) == [s EXCEPT !.enabled = enabled]

passes_filter_ScoreOnly(s, result) ==
    IF ~s.is_filter_strategy THEN TRUE
    ELSE RGe(result.score, s.threshold_score)

passes_filter(s, result) ==
    IF ~s.is_filter_strategy THEN TRUE
    ELSE result.is_qualified /\ RGe(result.score, s.threshold_score)

create_failed_result_Qualified(s, reason) ==
    NewStrategyResult(s.name, TRUE, I(0), I(0), NoDetails, reason)

create_failed_result(s, reason) ==
    NewStrategyResult(s.name, FALSE, I(0), I(0), NoDetails, reason)

(***************************************************************************)
(* StrategyRegistry                                                        *)
(***************************************************************************)
Names == {"A", "B", "C"}
MaxNames == 2            \* longest strategy_names argument
Thresholds == {I(DefaultThreshold)}

\* the lists of at most n elements of S
RECURSIVE SeqsUpTo(_, _)
SeqsUpTo(S, n) ==
    IF n = 0 THEN {<<>>}
    ELSE LET shorter == SeqsUpTo(S, n - 1)
         IN  shorter \cup {Append(q, x) : q \in {r \in shorter : Len(r) = n - 1}, x \in S}

KeyIndex(reg, name) ==
    IF \E i \in 1..Len(reg) : reg[i].name = name
    THEN CHOOSE i \in 1..Len(reg) : reg[i].name = name
    ELSE 0

\* self._strategies[name] = strategy : an existing key keeps its position
register_strategy_MoveToEnd(reg, s) ==
    Append(SelectSeq(reg, LAMBDA t : t.name # s.name), s)

register_strategy(reg, s) ==
    LET i == KeyIndex(reg, s.name)
    IN  IF i = 0 THEN Append(reg, s) ELSE [reg EXCEPT ![i] = s]

unregister_strategy(reg, name) == SelectSeq(reg, LAMBDA t : t.name # name)

HasStrategy(reg, name) == KeyIndex(reg, name) # 0
get_strategy(reg, name) == reg[KeyIndex(reg, name)]

get_enabled_strategies(reg) == SelectSeq(reg, LAMBDA t : t.enabled)

get_filter_strategies_All(reg) == SelectSeq(reg, LAMBDA t : t.is_filter_strategy)

get_filter_strategies(reg) == SelectSeq(reg, LAMBDA t : t.enabled /\ t.is_filter_strategy)

get_scoring_strategies(reg) == SelectSeq(reg, LAMBDA t : t.enabled /\ ~t.is_filter_strategy)

set_strategy_enabled(reg, name, enabled) ==
    LET i == KeyIndex(reg, name)
    IN  IF i = 0 THEN reg ELSE [reg EXCEPT ![i] = set_enabled(@, enabled)]

\* [self.get_strategy(name) for name in strategy_names if self.get_strategy(name) is not None]
RECURSIVE Lookup(_, _)
Lookup(reg, names) ==
    IF names = <<>> THEN <<>>
    ELSE IF HasStrategy(reg, Head(names))
         THEN <<get_strategy(reg, Head(names))>> \o Lookup(reg, Tail(names))
         ELSE Lookup(reg, Tail(names))

\* the strategy_names argument: None, or a list of names
NoNames == [given |-> FALSE, names |-> <<>>]
GivenNames(q) == [given |-> TRUE, names |-> q]
NameArgs == {NoNames} \cup {GivenNames(q) : q \in SeqsUpTo(Names, MaxNames)}

\* what strategy.analyze does for the stock at hand: raise, or return a verdict that is
\* disqualified, qualified below the default threshold, or qualified with the full score
Behaviours == {"raise", "no", "weak", "full"}
Outcome(name, behaviour) ==
    CASE behaviour = "raise" -> Raised("boom")
      [] behaviour = "no"    -> NewStrategyResult(name, FALSE, I(0), I(0), NoDetails, <<"no">>)
      [] behaviour = "weak"  -> NewStrategyResult(name, TRUE, I(55), R(9, 10), NoDetails, <<"yes">>)
      [] behaviour = "full"  -> NewStrategyResult(name, TRUE, I(100), R(9, 10), NoDetails, <<"yes">>)

NameSet(q) == {q[i].name : i \in 1..Len(q)}
Oracles(q) == [NameSet(q) -> Behaviours]

\* results[name] = v
Put(results, name, v) == [n \in (DOMAIN results) \cup {name} |-> IF n = name THEN v ELSE results[n]]

\* the running state of one evaluation call
Run0 == [calls |-> <<>>, errors |-> <<>>, results |-> <<>>, stopped |-> FALSE, propagated |-> FALSE]

\* the except branch shared by all three loops
ErrorReason(e) == <<"analysis error: ", e>>
OnError(s, e) == create_failed_result(s, ErrorReason(e))

\* the log of the call: which analyze was invoked, and which of them raised
Record(run, s, o) == [run EXCEPT !.calls = Append(@, s.name),
                                 !.errors = IF o.raises THEN Append(@, s.name) ELSE @]

\* except Exception as e: store the failed result built by create_failed_result
Catch(run, s, e) ==
    LET f == OnError(s, e)
    IN  IF f.raises THEN [run EXCEPT !.propagated = TRUE, !.stopped = TRUE]
        ELSE [run EXCEPT !.results = Put(@, s.name, f.value)]

\* one iteration of the loop of analyze_stock
FlatStep_NoCatch(run, s, o) ==
    IF o.raises THEN [Record(run, s, o) EXCEPT !.propagated = TRUE, !.stopped = TRUE]
    ELSE [Record(run, s, o) EXCEPT !.results = Put(@, s.name, o.value)]

FlatStep(run, s, o) ==
    IF o.raises THEN Catch(Record(run, s, o), s, o.error)
    ELSE [Record(run, s, o) EXCEPT !.results = Put(@, s.name, o.value)]

\* one iteration of the filter loop of analyze_stock_with_filtering
FilterStep_ContinueOnError(run, s, o) ==
    IF o.raises THEN Catch(Record(run, s, o), s, o.error)
    ELSE LET r == [Record(run, s, o) EXCEPT !.results = Put(@, s.name, o.value)]
         IN  IF ~passes_filter(s, o.value) THEN [r EXCEPT !.stopped = TRUE] ELSE r

FilterStep_NoShortCircuit(run, s, o) ==
    IF o.raises THEN [Catch(Record(run, s, o), s, o.error) EXCEPT !.stopped = TRUE]
    ELSE [Record(run, s, o) EXCEPT !.results = Put(@, s.name, o.value)]

FilterStep(run, s, o) ==
    IF o.raises THEN [Catch(Record(run, s, o), s, o.error) EXCEPT !.stopped = TRUE]
    ELSE LET r == [Record(run, s, o) EXCEPT !.results = Put(@, s.name, o.value)]
         IN  IF ~passes_filter(s, o.value) THEN [r EXCEPT !.stopped = TRUE] ELSE r

\* one iteration of the scoring loop of analyze_stock_with_filtering
ScoringStep(run, s, o) ==
    IF o.raises THEN Catch(Record(run, s, o), s, o.error)
    ELSE [Record(run, s, o) EXCEPT !.results = Put(@, s.name, o.value)]

RECURSIVE FlatLoop(_, _, _)
FlatLoop(run, q, oracle) ==
    IF q = <<>> \/ run.stopped THEN run
    ELSE FlatLoop(FlatStep(run, Head(q), Outcome(Head(q).name, oracle[Head(q).name])), Tail(q), oracle)

RECURSIVE FilterLoop(_, _, _)
FilterLoop(run, q, oracle) ==
    IF q = <<>> \/ run.stopped THEN run
    ELSE FilterLoop(FilterStep(run, Head(q), Outcome(Head(q).name, oracle[Head(q).name])), Tail(q), oracle)

RECURSIVE ScoringLoop(_, _, _)
ScoringLoop(run, q, oracle) ==
    IF q = <<>> \/ run.stopped THEN run
    ELSE ScoringLoop(ScoringStep(run, Head(q), Outcome(Head(q).name, oracle[Head(q).name])), Tail(q), oracle)

\* the strategies analyze_stock runs
FlatSelection(reg, arg) ==
    IF ~arg.given THEN get_enabled_strategies(reg) ELSE Lookup(reg, arg.names)

\* the filter_strategies and scoring_strategies lists of analyze_stock_with_filtering
FilterSelection_ByRegistry(reg, arg) ==
    IF ~arg.given THEN get_filter_strategies(reg)
    ELSE SelectSeq(reg, LAMBDA t : t.is_filter_strategy /\ t.enabled
                                   /\ \E i \in 1..Len(arg.names) : arg.names[i] = t.name)

FilterSelection(reg, arg) ==
    IF ~arg.given THEN get_filter_strategies(reg)
    ELSE SelectSeq(Lookup(reg, arg.names), LAMBDA t : t.is_filter_strategy)

ScoringSelection(reg, arg) ==
    IF ~arg.given THEN get_scoring_strategies(reg)
    ELSE SelectSeq(Lookup(reg, arg.names), LAMBDA t : ~t.is_filter_strategy)

analyze_stock(reg, arg, oracle) == FlatLoop(Run0, FlatSelection(reg, arg), oracle)

analyze_stock_with_filtering_ScoreFirst(reg, arg, oracle) ==
    FilterLoop(ScoringLoop(Run0, ScoringSelection(reg, arg), oracle),
               FilterSelection(reg, arg), oracle)

analyze_stock_with_filtering(reg, arg, oracle) ==
    ScoringLoop(FilterLoop(Run0, FilterSelection(reg, arg), oracle),
                ScoringSelection(reg, arg), oracle)

NoRet == [op |-> "none", arg |-> NoNames, calls |-> <<>>, errors |-> <<>>, results |-> <<>>,
          stopped |-> FALSE, propagated |-> FALSE]
RetOf(op, arg, run) == [op |-> op, arg |-> arg, calls |-> run.calls, errors |-> run.errors,
                        results |-> run.results,
                        stopped |-> run.stopped, propagated |-> run.propagated]

(***************************************************************************)
(* Data frames                                                             *)
(***************************************************************************)
\* a pandas DataFrame: its columns and its rows in storage order; every row carries a value
\* for each possible column, the values of absent columns are never read
NoFrame == [none |-> TRUE, columns |-> {}, rows |-> <<>>]
Frame(columns, rows) == [none |-> FALSE, columns |-> columns, rows |-> rows]
Row(trade_date, close, vol, j) == [trade_date |-> trade_date, close |-> close, vol |-> vol, J |-> j]

AllColumns == {"trade_date", "close", "vol", "J"}

\* DataFrame.empty: no rows or no columns
IsEmpty(f) == Len(f.rows) = 0 \/ f.columns = {}

\* insert a row into rows sorted ascending by trade_date
RECURSIVE InsertByDate(_, _)
InsertByDate(rows, r) ==
    IF rows = <<>> THEN <<r>>
    ELSE IF r.trade_date < Head(rows).trade_date THEN <<r>> \o rows
    ELSE <<Head(rows)>> \o InsertByDate(Tail(rows), r)

sort_values_Unsorted(rows) == rows

\* df.sort_values('trade_date', ascending=True)
RECURSIVE sort_values(_)
sort_values(rows) ==
    IF rows = <<>> THEN <<>> ELSE InsertByDate(sort_values(Tail(rows)), Head(rows))

\* df.tail(n)
TailRows(rows, n) == IF Len(rows) <= n THEN rows ELSE SubSeq(rows, Len(rows) - n + 1, Len(rows))

Reverse(rows) == [i \in 1..Len(rows) |-> rows[Len(rows) + 1 - i]]

validate_data_NoLengthCheck(f, min_length) ==
    IF f.none \/ IsEmpty(f) THEN FALSE
    ELSE IF {"trade_date", "close", "vol"} \ f.columns # {} THEN FALSE
    ELSE TRUE

\* BaseStrategy.validate_data
validate_data(f, min_length) ==
    IF f.none \/ IsEmpty(f) THEN FALSE
    ELSE IF Len(f.rows) < min_length THEN FALSE
    ELSE IF {"trade_date", "close", "vol"} \ f.columns # {} THEN FALSE
    ELSE TRUE

\* BaseStrategy.get_latest_data, for a frame that is neither None nor empty
get_latest_data(f) == LET sorted == sort_values(f.rows) IN sorted[Len(sorted)]

(***************************************************************************)
(* JValueStrategy                                                          *)
(***************************************************************************)
DefaultMaxJ == 13
JMinLength == 5

\* JValueStrategy.__init__
JValueStrategy(max_j_value, weight, is_filter_strategy, threshold_score) ==
    [kind |-> "J", name |-> "JValue", weight |-> weight, enabled |-> TRUE,
     is_filter_strategy |-> is_filter_strategy, threshold_score |-> threshold_score,
     max_j_value |-> max_j_value]

JScore_ZeroFloor(j, max_j) ==
    IF RLe(j, I(0)) THEN I(100)
    ELSE IF RGe(j, max_j) THEN I(0)
    ELSE RSub(I(100), RMul(RDiv(j, max_j), I(100)))

\* lines 66-72
JScore(j, max_j) ==
    IF RLe(j, I(0)) THEN I(100)
    ELSE IF RGe(j, max_j) THEN I(0)
    ELSE RSub(I(100), RMul(RDiv(j, max_j), I(90)))

\* lines 75-80
JConfidence(j, max_j) ==
    IF RLe(j, RMul(max_j, R(5, 10))) THEN R(9, 10)
    ELSE IF RLe(j, RMul(max_j, R(8, 10))) THEN R(7, 10)
    ELSE R(5, 10)

JValueAnalyze_NonStrict(s, f) ==
    IF ~validate_data(f, JMinLength) THEN create_failed_result(s, <<"insufficient data or missing column">>)
    ELSE LET latest == get_latest_data(f) IN
         IF "J" \notin f.columns \/ IsNaN(latest.J) THEN create_failed_result(s, <<"no J value">>)
         ELSE IF s.max_j_value = I(0) THEN Raised("ZeroDivisionError")
         ELSE NewStrategyResult(s.name, RLe(latest.J, s.max_j_value),
                                JScore(latest.J, s.max_j_value),
                                JConfidence(latest.J, s.max_j_value),
                                [j_value |-> latest.J, max_j_value |-> s.max_j_value,
                                 j_percentile |-> RMul(RDiv(latest.J, s.max_j_value), I(100))],
                                <<IF RLe(latest.J, s.max_j_value) THEN "oversold" ELSE "not oversold">>)

\* JValueStrategy.analyze
JValueAnalyze(s, f) ==
    IF ~validate_data(f, JMinLength) THEN create_failed_result(s, <<"insufficient data or missing column">>)
    ELSE LET latest == get_latest_data(f) IN
         IF "J" \notin f.columns \/ IsNaN(latest.J) THEN create_failed_result(s, <<"no J value">>)
         \* j_value / self.max_j_value of line 86 divides two Python floats
         ELSE IF s.max_j_value = I(0) THEN Raised("ZeroDivisionError")
         ELSE NewStrategyResult(s.name, RLt(latest.J, s.max_j_value),
                                JScore(latest.J, s.max_j_value),
                                JConfidence(latest.J, s.max_j_value),
                                [j_value |-> latest.J, max_j_value |-> s.max_j_value,
                                 j_percentile |-> RMul(RDiv(latest.J, s.max_j_value), I(100))],
                                <<IF RLt(latest.J, s.max_j_value) THEN "oversold" ELSE "not oversold">>)

(***************************************************************************)
(* VolumePatternStrategy                                                   *)
(***************************************************************************)
LookBack == 5            \* df_sorted.tail(days_to_analyze + 5)
ExtraRequired_LookBackOnly == LookBack

ExtraRequired == 10      \* required_length = days_to_analyze + 10
MAWindow == 5            \* rolling(window=5)
MinSamples == 3          \* len(up_days) < 3 or len(down_days) < 3
RecentDays == 5          \* analysis_data.tail(5)

\* VolumePatternStrategy.__init__
VolumePatternStrategy(days_to_analyze, min_price_change, min_volume_contrast, weight) ==
    [kind |-> "V", name |-> "VolumePattern", weight |-> weight, enabled |-> TRUE,
     is_filter_strategy |-> FALSE, threshold_score |-> I(DefaultThreshold),
     days_to_analyze |-> days_to_analyze, min_price_change |-> min_price_change,
     min_volume_contrast |-> min_volume_contrast]

RECURSIVE SumOver(_, _)
SumOver(S, val) ==
    IF S = {} THEN I(0)
    ELSE LET i == CHOOSE x \in S : TRUE IN RAdd(val[i], SumOver(S \ {i}, val))

\* Series.mean(): the mean of the values that are not NaN, NaN when there is none
Mean(S, val) ==
    LET valid == {i \in S : ~IsNaN(val[i])}
    IN  IF valid = {} THEN NaN ELSE RDiv(SumOver(valid, val), I(Cardinality(valid)))

\* analysis_data['close'].pct_change()
PctChange(rows) ==
    [i \in 1..Len(rows) |->
        IF i = 1 THEN NaN ELSE RSub(RDiv(rows[i].close, rows[i - 1].close), I(1))]

\* analysis_data['vol'].rolling(window=5).mean()
RollingMean(rows) ==
    [i \in 1..Len(rows) |->
        IF i < MAWindow THEN NaN
        ELSE RDiv(SumOver((i - MAWindow + 1)..i, [k \in 1..Len(rows) |-> rows[k].vol]), I(MAWindow))]

\* analysis_data['vol'] / analysis_data['volume_ma']
volume_ratio(analysis_data) ==
    LET volume_ma == RollingMean(analysis_data)
    IN  [i \in 1..Len(analysis_data) |-> RDiv(analysis_data[i].vol, volume_ma[i])]

\* the rows _analyze_volume_price_pattern works on when analyze hands it the series f:
\* data.tail(days_to_analyze) of df_sorted.tail(days_to_analyze + 5)
analysis_rows(s, f) ==
    TailRows(TailRows(sort_values(f.rows), s.days_to_analyze + LookBack), s.days_to_analyze)

NoAnalysis == [none |-> TRUE]

\* VolumePatternStrategy._analyze_volume_price_pattern
analyze_pattern(s, columns, data) ==
    LET analysis_data == TailRows(data, s.days_to_analyze)
        change == PctChange(analysis_data)
        ratio == volume_ratio(analysis_data)
        up_days == {i \in 1..Len(analysis_data) : RGt(change[i], s.min_price_change)}
        down_days == {i \in 1..Len(analysis_data) : RLt(change[i], RNeg(s.min_price_change))}
    IN  IF Cardinality(up_days) < MinSamples \/ Cardinality(down_days) < MinSamples THEN NoAnalysis
        ELSE
        LET avg_vol_ratio_up == Mean(up_days, ratio)
            avg_vol_ratio_down == Mean(down_days, ratio)
            \* NaN != 0 is true, and NaN / x is NaN
            volume_contrast == IF avg_vol_ratio_down # I(0)
                               THEN RDiv(avg_vol_ratio_up, avg_vol_ratio_down) ELSE I(0)
            c1 == RGe(volume_contrast, s.min_volume_contrast)
            c2 == RGe(avg_vol_ratio_up, I(1))
            c3 == RLe(avg_vol_ratio_down, I(1))
            recent_5days == TailRows(analysis_data, RecentDays)
        IN  [none |-> FALSE,
             \* conditions_met starts True and is cleared by the three "<", "<", ">" tests
             is_qualified |-> ~RLt(volume_contrast, s.min_volume_contrast)
                              /\ ~RLt(avg_vol_ratio_up, I(1)) /\ ~RGt(avg_vol_ratio_down, I(1)),
             up_days_count |-> Cardinality(up_days),
             down_days_count |-> Cardinality(down_days),
             avg_vol_ratio_up |-> avg_vol_ratio_up,
             avg_vol_ratio_down |-> avg_vol_ratio_down,
             volume_contrast |-> volume_contrast,
             recent_return_5d |-> RMul(RSub(RDiv(recent_5days[Len(recent_5days)].close,
                                                 recent_5days[1].close), I(1)), I(100)),
             j_value |-> IF "J" \in columns THEN analysis_data[Len(analysis_data)].J ELSE I(0),
             condition_scores |-> [volume_contrast |-> c1, up_day_volume |-> c2, down_day_volume |-> c3]]

calculate_score_NoCap(s, a) ==
    IF ~a.is_qualified THEN I(0)
    ELSE LET s1 == IF RGe(a.volume_contrast, I(2)) THEN 40
                   ELSE IF RGe(a.volume_contrast, R(3, 2)) THEN 30
                   ELSE IF RGe(a.volume_contrast, s.min_volume_contrast) THEN 20 ELSE 0
             s2 == IF RGe(a.avg_vol_ratio_up, R(3, 2)) THEN 30
                   ELSE IF RGe(a.avg_vol_ratio_up, R(6, 5)) THEN 20
                   ELSE IF RGe(a.avg_vol_ratio_up, I(1)) THEN 10 ELSE 0
             s3 == IF RLe(a.avg_vol_ratio_down, R(4, 5)) THEN 20
                   ELSE IF RLe(a.avg_vol_ratio_down, R(9, 10)) THEN 15
                   ELSE IF RLe(a.avg_vol_ratio_down, I(1)) THEN 10 ELSE 0
             s4 == IF RGt(a.recent_return_5d, I(0)) THEN a.recent_return_5d ELSE I(0)
         IN  RMin(I(100), RAdd(I(s1 + s2 + s3), s4))

\* VolumePatternStrategy._calculate_score
calculate_score(s, a) ==
    IF ~a.is_qualified THEN I(0)
    ELSE LET s1 == IF RGe(a.volume_contrast, I(2)) THEN 40
                   ELSE IF RGe(a.volume_contrast, R(3, 2)) THEN 30
                   ELSE IF RGe(a.volume_contrast, s.min_volume_contrast) THEN 20 ELSE 0
             s2 == IF RGe(a.avg_vol_ratio_up, R(3, 2)) THEN 30
                   ELSE IF RGe(a.avg_vol_ratio_up, R(6, 5)) THEN 20
                   ELSE IF RGe(a.avg_vol_ratio_up, I(1)) THEN 10 ELSE 0
             s3 == IF RLe(a.avg_vol_ratio_down, R(4, 5)) THEN 20
                   ELSE IF RLe(a.avg_vol_ratio_down, R(9, 10)) THEN 15
                   ELSE IF RLe(a.avg_vol_ratio_down, I(1)) THEN 10 ELSE 0
             s4 == IF RGt(a.recent_return_5d, I(0)) THEN RMin(I(10), a.recent_return_5d) ELSE I(0)
         IN  RMin(I(100), RAdd(I(s1 + s2 + s3), s4))

\* VolumePatternStrategy._calculate_confidence
calculate_confidence(a) ==
    IF ~a.is_qualified THEN R(1, 10)
    ELSE LET total_samples == a.up_days_count + a.down_days_count
             k1 == IF total_samples >= 10 THEN R(2, 10)
                   ELSE IF total_samples >= 6 THEN R(1, 10) ELSE I(0)
             k2 == IF RGe(a.volume_contrast, I(2)) THEN R(2, 10)
                   ELSE IF RGe(a.volume_contrast, R(3, 2)) THEN R(1, 10) ELSE I(0)
             conditions_met == (IF a.condition_scores.volume_contrast THEN 1 ELSE 0)
                               + (IF a.condition_scores.up_day_volume THEN 1 ELSE 0)
                               + (IF a.condition_scores.down_day_volume THEN 1 ELSE 0)
         IN  RMin(I(1), RAdd(RAdd(RAdd(R(1, 2), k1), k2), RMul(I(conditions_met), R(5, 100))))

\* VolumePatternStrategy._generate_reason, without the numbers it prints
generate_reason(a) == <<IF a.is_qualified THEN "pattern" ELSE "no pattern">>

\* VolumePatternStrategy.analyze
VolumeAnalyze(s, f) ==
    IF ~validate_data(f, s.days_to_analyze + ExtraRequired)
        THEN create_failed_result(s, <<"insufficient data">>)
    ELSE IF {"close", "vol", "trade_date"} \ f.columns # {}
        THEN create_failed_result(s, <<"missing column">>)
    ELSE LET recent_data == TailRows(sort_values(f.rows), s.days_to_analyze + LookBack) IN
         IF Len(recent_data) < s.days_to_analyze
             THEN create_failed_result(s, <<"recent data insufficient">>)
         ELSE LET a == analyze_pattern(s, f.columns, recent_data) IN
              IF a.none THEN create_failed_result(s, <<"volume analysis failed">>)
              ELSE LET r == NewStrategyResult(s.name, a.is_qualified, calculate_score(s, a),
                                              calculate_confidence(a), a, generate_reason(a))
                   \* except Exception as e (line 107)
                   IN  IF r.raises THEN create_failed_result(s, ErrorReason(r.error)) ELSE r

(***************************************************************************)
(* ScoringEngine                                                           *)
(***************************************************************************)
DefaultMethod == "weighted_average"
ValidMethods == {"weighted_average", "multiplicative", "max_score"}
DefaultMinQualified == 1

\* ScoringEngine.__init__
ScoringEngine(scoring_method) ==
    [scoring_method |-> scoring_method, min_qualified_strategies |-> DefaultMinQualified]

\* A dict is the sequence of its items [name, value], in insertion order.
Item(name, value) == [name |-> name, value |-> value]
Keys(dict) == {dict[i].name : i \in 1..Len(dict)}
\* dict.get(name, default)
Get(dict, name, default) ==
    IF name \in Keys(dict)
    THEN dict[CHOOSE i \in 1..Len(dict) : dict[i].name = name].value
    ELSE default

RECURSIVE SumSeq(_)
SumSeq(q) == IF q = <<>> THEN I(0) ELSE RAdd(Head(q), SumSeq(Tail(q)))

\* the weighted geometric mean 100 * ((s1/100)^w1 * ... * (sn/100)^wn)^(1/W) of positive
\* scores, W = w1 + ... + wn > 0, kept exact: factors of equal base are merged and the
\* factors 1 dropped; what is left is a rational when it is a single base to the power 1,
\* and otherwise a power product <<b1n, b1d, e1n, e1d, b2n, ...>> of the bases b in
\* increasing order with their exponents e
RECURSIVE PowerForm(_, _)
PowerForm(bases, exponent) ==
    IF bases = {} THEN <<>>
    ELSE LET b == CHOOSE x \in bases : \A y \in bases : RLe(x, y)
         IN  <<b[1], b[2], exponent[b][1], exponent[b][2]>> \o PowerForm(bases \ {b}, exponent)

GeometricMean(scores, weights) ==
    LET total_weight == SumSeq(weights)
        base == [i \in 1..Len(scores) |-> RDiv(scores[i], I(100))]
        share == [i \in 1..Len(scores) |-> RDiv(weights[i], total_weight)]
        all == {base[i] : i \in 1..Len(scores)}
        exponent == [b \in all |-> SumOver({i \in 1..Len(scores) : base[i] = b}, share)]
        bases == {b \in all : b # I(1) /\ exponent[b] # I(0)}
    IN  IF bases = {} THEN I(100)
        ELSE IF Cardinality(bases) = 1 /\ (\A b \in bases : exponent[b] = I(1))
             THEN RMul(CHOOSE b \in bases : TRUE, I(100))
        ELSE PowerForm(bases, exponent)

MaxWeightIndex_Last(weights) ==
    CHOOSE i \in 1..Len(weights) :
        /\ \A k \in 1..Len(weights) : RLe(weights[k], weights[i])
        /\ \A k \in (i + 1)..Len(weights) : RLt(weights[k], weights[i])

\* the first index of the largest weight: weights.index(max(weights))
MaxWeightIndex(weights) ==
    CHOOSE i \in 1..Len(weights) :
        /\ \A k \in 1..Len(weights) : RLe(weights[k], weights[i])
        /\ \A k \in 1..(i - 1) : RLt(weights[k], weights[i])

weighted_average_Unweighted(scores, weights, total_score) == total_score

\* the weighted_average branch (lines 198-203)
weighted_average(scores, weights, total_score) ==
    LET total_weight == SumSeq(weights)
    IN  IF RGt(total_weight, I(0))
        THEN RDiv(SumSeq([i \in 1..Len(scores) |-> RMul(scores[i], weights[i])]), total_weight)
        ELSE total_score

multiplicative_NoGuard(scores, weights) ==
    IF SumSeq(weights) = I(0) THEN Raised("ZeroDivisionError")
    ELSE Returned(GeometricMean(scores, weights))

\* the multiplicative branch (lines 205-213)
multiplicative(scores, weights) ==
    IF \A i \in 1..Len(scores) : RGt(scores[i], I(0))
    \* 1 / sum(weights) of line 211 divides by zero when the weights add up to 0
    THEN IF SumSeq(weights) = I(0) THEN Raised("ZeroDivisionError")
         ELSE Returned(GeometricMean(scores, weights))
    ELSE Returned(I(0))

NoScores == [total_score |-> I(0), weighted_score |-> I(0)]

\* ScoringEngine._calculate_scores
calculate_scores(eng, strategy_scores, strategy_weights) ==
    IF strategy_scores = <<>> THEN Returned(NoScores)
    ELSE
    LET scores == [i \in 1..Len(strategy_scores) |-> strategy_scores[i].value]
        weights == [i \in 1..Len(strategy_scores) |->
                        Get(strategy_weights, strategy_scores[i].name, I(1))]
        total_score == RDiv(SumSeq(scores), I(Len(scores)))
    IN  CASE eng.scoring_method = "weighted_average" ->
                Returned([total_score |-> total_score,
                          weighted_score |-> weighted_average(scores, weights, total_score)])
          [] eng.scoring_method = "multiplicative" ->
                LET m == multiplicative(scores, weights)
                IN  IF m.raises THEN m
                    ELSE Returned([total_score |-> total_score, weighted_score |-> m.value])
          [] eng.scoring_method = "max_score" ->
                Returned([total_score |-> total_score,
                          weighted_score |-> scores[MaxWeightIndex(weights)]])
          [] OTHER ->
                Returned([total_score |-> total_score, weighted_score |-> total_score])

\* StockScore(...) with its __post_init__
StockScore(stock_code, total_score, weighted_score, strategy_scores, strategy_weights, strategy_results) ==
    LET total_weight == SumSeq([i \in 1..Len(strategy_weights) |-> strategy_weights[i].value])
        weighted_confidence ==
            SumSeq([i \in 1..Len(strategy_results) |->
                        RMul(strategy_results[i].value.confidence,
                             Get(strategy_weights, strategy_results[i].name, I(0)))])
        qualified == SelectSeq(strategy_results, LAMBDA item : item.value.is_qualified)
    IN  [stock_code |-> stock_code,
         total_score |-> total_score,
         weighted_score |-> weighted_score,
         strategy_scores |-> strategy_scores,
         strategy_weights |-> strategy_weights,
         strategy_results |-> strategy_results,
         qualified_strategies |-> [i \in 1..Len(qualified) |-> qualified[i].name],
         confidence |-> IF strategy_results # <<>> /\ strategy_weights # <<>>
                           /\ RGt(total_weight, I(0))
                        THEN RDiv(weighted_confidence, total_weight)
                        ELSE I(0)]

\* StockScore.qualified_count
qualified_count(stock_score) == Len(stock_score.qualified_strategies)

\* the optional arguments strategy_weights and filter_strategy_names
NoWeights == [given |-> FALSE, dict |-> <<>>]
GivenWeights(dict) == [given |-> TRUE, dict |-> dict]

calculate_stock_score_KeepFilters(eng, stock_code, strategy_results, strategy_weights, filter_strategy_names) ==
    IF strategy_results = <<>>
        THEN Returned(StockScore(stock_code, I(0), I(0), <<>>, <<>>, <<>>))
    ELSE
    LET scoring_results == strategy_results
        weights == IF ~strategy_weights.given
                   THEN [i \in 1..Len(scoring_results) |-> Item(scoring_results[i].name, I(1))]
                   ELSE SelectSeq(strategy_weights.dict,
                                  LAMBDA item : item.name \in Keys(scoring_results))
        strategy_scores == [i \in 1..Len(scoring_results) |->
                                Item(scoring_results[i].name, scoring_results[i].value.score)]
        scores == calculate_scores(eng, strategy_scores, weights)
    IN  IF scores.raises THEN Raised(scores.error)
        ELSE Returned(StockScore(stock_code, scores.value.total_score,
                                 scores.value.weighted_score, strategy_scores, weights,
                                 strategy_results))

\* ScoringEngine.calculate_stock_score (the market data fields are left out)
calculate_stock_score(eng, stock_code, strategy_results, strategy_weights, filter_strategy_names) ==
    IF strategy_results = <<>>
        THEN Returned(StockScore(stock_code, I(0), I(0), <<>>, <<>>, <<>>))
    ELSE
    LET filter_names == IF filter_strategy_names.given
                        THEN {filter_strategy_names.names[i] :
                                  i \in 1..Len(filter_strategy_names.names)}
                        ELSE {}
        scoring_results == SelectSeq(strategy_results, LAMBDA item : item.name \notin filter_names)
        weights == IF ~strategy_weights.given
                   THEN [i \in 1..Len(scoring_results) |-> Item(scoring_results[i].name, I(1))]
                   ELSE SelectSeq(strategy_weights.dict,
                                  LAMBDA item : item.name \in Keys(scoring_results))
        strategy_scores == [i \in 1..Len(scoring_results) |->
                                Item(scoring_results[i].name, scoring_results[i].value.score)]
        scores == calculate_scores(eng, strategy_scores, weights)
    IN  IF scores.raises THEN Raised(scores.error)
        ELSE Returned(StockScore(stock_code, scores.value.total_score,
                                 scores.value.weighted_score, strategy_scores, weights,
                                 strategy_results))

\* the optional argument min_qualified_strategies
NoCount == [given |-> FALSE, count |-> 0]
GivenCount(n) == [given |-> TRUE, count |-> n]

\* the value rank_stocks compares with min_score
FilterKey(stock_score, sort_by) ==
    CASE sort_by = "total_score" -> stock_score.total_score
      [] sort_by = "weighted_score" -> stock_score.weighted_score
      [] OTHER -> NaN

KeyGreater_OrEqual(a, b, sort_by) ==
    CASE sort_by = "total_score" -> RGe(a.total_score, b.total_score)
      [] sort_by = "qualified_count" ->
            \/ qualified_count(a) > qualified_count(b)
            \/ qualified_count(a) = qualified_count(b) /\ RGe(a.weighted_score, b.weighted_score)
      [] sort_by = "confidence" -> RGe(a.confidence, b.confidence)
      [] OTHER -> RGe(a.weighted_score, b.weighted_score)

\* key(a) > key(b) for the key function of the sort
KeyGreater(a, b, sort_by) ==
    CASE sort_by = "total_score" -> RGt(a.total_score, b.total_score)
      [] sort_by = "qualified_count" ->
            \/ qualified_count(a) > qualified_count(b)
            \/ qualified_count(a) = qualified_count(b) /\ RGt(a.weighted_score, b.weighted_score)
      [] sort_by = "confidence" -> RGt(a.confidence, b.confidence)
      [] OTHER -> RGt(a.weighted_score, b.weighted_score)

\* list.sort(key, reverse=True): descending, equal keys keep their order
RECURSIVE InsertDescending(_, _, _)
InsertDescending(sorted, x, sort_by) ==
    IF sorted = <<>> THEN <<x>>
    ELSE IF KeyGreater(x, Head(sorted), sort_by) THEN <<x>> \o sorted
    ELSE <<Head(sorted)>> \o InsertDescending(Tail(sorted), x, sort_by)

RECURSIVE SortDescending(_, _)
SortDescending(list, sort_by) ==
    IF list = <<>> THEN <<>>
    ELSE InsertDescending(SortDescending(SubSeq(list, 1, Len(list) - 1), sort_by),
                          list[Len(list)], sort_by)

rank_stocks_Unstable(eng, stock_scores, sort_by, min_score, min_qualified_strategies) ==
    LET min_qualified == IF min_qualified_strategies.given THEN min_qualified_strategies.count
                         ELSE eng.min_qualified_strategies
        filtered_stocks ==
            SelectSeq(stock_scores,
                      LAMBDA x : /\ ~RLt(FilterKey(x, sort_by), min_score)
                                 /\ ~(qualified_count(x) < min_qualified))
        sorted == SortDescending(Reverse(filtered_stocks), sort_by)
    IN  [i \in 1..Len(sorted) |-> [rank |-> i, stock_score |-> sorted[i]]]

\* ScoringEngine.rank_stocks
rank_stocks(eng, stock_scores, sort_by, min_score, min_qualified_strategies) ==
    LET min_qualified == IF min_qualified_strategies.given THEN min_qualified_strategies.count
                         ELSE eng.min_qualified_strategies
        filtered_stocks ==
            SelectSeq(stock_scores,
                      LAMBDA x : /\ ~RLt(FilterKey(x, sort_by), min_score)
                                 /\ ~(qualified_count(x) < min_qualified))
        sorted == SortDescending(filtered_stocks, sort_by)
    IN  [i \in 1..Len(sorted) |-> [rank |-> i, stock_score |-> sorted[i]]]

\* ScoringEngine.set_scoring_method
set_scoring_method(eng, method) ==
    IF method \notin ValidMethods THEN Raised("ValueError")
    ELSE Returned([eng EXCEPT !.scoring_method = method])

\* ScoringEngine.set_min_qualified_strategies
set_min_qualified_strategies(eng, count) ==
    IF count < 0 THEN Raised("ValueError")
    ELSE Returned([eng EXCEPT !.min_qualified_strategies = count])

set_weight_Unchecked(s, weight) == Returned([s EXCEPT !.weight = weight])

\* BaseStrategy.set_weight
set_weight(s, weight) ==
    IF RLt(weight, I(0)) THEN Raised("ValueError")
    ELSE Returned([s EXCEPT !.weight = weight])

\* StrategyRegistry.set_strategy_weight
set_strategy_weight(reg, name, weight) ==
    IF HasStrategy(reg, name)
    THEN LET i == KeyIndex(reg, name)
             r == set_weight(reg[i], weight)
         IN  IF r.raises THEN Raised(r.error) ELSE Returned([reg EXCEPT ![i] = r.value])
    ELSE Returned(reg)

(***************************************************************************)
(* StockDataDownloader._calculate_kdj   (download/data_downloader.py)      *)
(* The price columns are float64 arrays: a division by zero gives NaN or   *)
(* inf, it does not raise.                                                 *)
(***************************************************************************)
KDJWindow == 9           \* n = 9
KDJSeed == 50            \* k_previous, d_previous = 50, 50

Bar(trade_date, low, high, close) ==
    [trade_date |-> trade_date, low |-> low, high |-> high, close |-> close]

\* np.min / np.max of a column over rows[from..to]
RECURSIVE ColumnMin(_, _, _, _)
ColumnMin(rows, column, from, to) ==
    IF from = to THEN rows[from][column]
    ELSE LET m == ColumnMin(rows, column, from, to - 1)
         IN  IF RLt(rows[to][column], m) THEN rows[to][column] ELSE m
RECURSIVE ColumnMax(_, _, _, _)
ColumnMax(rows, column, from, to) ==
    IF from = to THEN rows[from][column]
    ELSE LET m == ColumnMax(rows, column, from, to - 1)
         IN  IF RGt(rows[to][column], m) THEN rows[to][column] ELSE m

\* first row of the window of bar i: max(0, i - n + 1), counted from 1
WindowStart(i) == IF i - KDJWindow + 1 > 1 THEN i - KDJWindow + 1 ELSE 1

\* rsv = (close_prices[i] - low_min) / (high_max - low_min) * 100
rsv(rows, i) ==
    LET low_min == ColumnMin(rows, "low", WindowStart(i), i)
        high_max == ColumnMax(rows, "high", WindowStart(i), i)
    IN  RMul(RDiv(RSub(rows[i].close, low_min), RSub(high_max, low_min)), I(100))

\* the loop over the bars: the K, D, J of bars i..len, given those of bar i - 1
RECURSIVE KDJLoop(_, _, _, _)
KDJLoop(rows, i, k_previous, d_previous) ==
    IF i > Len(rows) THEN <<>>
    ELSE LET k == RAdd(RMul(R(2, 3), k_previous), RMul(R(1, 3), rsv(rows, i)))
             d == RAdd(RMul(R(2, 3), d_previous), RMul(R(1, 3), k))
             j == RSub(RMul(I(3), k), RMul(I(2), d))
         IN  <<[trade_date |-> rows[i].trade_date, low |-> rows[i].low, high |-> rows[i].high,
                close |-> rows[i].close, K |-> k, D |-> d, J |-> j]>>
             \o KDJLoop(rows, i + 1, k, d)

\* _calculate_kdj(data)
calculate_kdj(data) == KDJLoop(sort_values(data), 1, I(KDJSeed), I(KDJSeed))

(***************************************************************************)
(* APIRateLimiter   (download/data_downloader.py)                          *)
(* Time is counted in half seconds.                                        *)
(***************************************************************************)
API_CALLS_PER_MINUTE == 40
Minute == 120
MaxThreads == 2          \* threads that call wait_if_needed
MaxTime == 12            \* the clock stops here

Threads == 1..MaxThreads

\* APIRateLimiter.__init__: min_interval = 60.0 / calls_per_minute; lock 0 is the free lock
APIRateLimiter(calls_per_minute) ==
    [min_interval |-> Minute \div calls_per_minute, last_call_time |-> 0, call_count |-> 0,
     lock |-> 0]

\* a thread outside wait_if_needed
Outside == [pc |-> "outside", current_time |-> 0, sleep_time |-> 0]

sleep_time_None(l, current_time) == 0

\* lines 53-57: the time to sleep, 0 when the branch is not taken
sleep_time(l, current_time) ==
    LET time_since_last_call == current_time - l.last_call_time
    IN  IF time_since_last_call < l.min_interval
        THEN l.min_interval - time_since_last_call
        ELSE 0

(***************************************************************************)
(* update_today_data   (download/data_downloader.py)                       *)
(* Dates are day numbers; the days d with d % 7 >= 5 are Saturdays and     *)
(* Sundays.  A parquet file is the set of the trade dates of its rows.     *)
(***************************************************************************)
MaxDay == 5              \* the last calendar day
Days == 1..MaxDay
Stocks == {"000001", "000002"}
SampleStock == "000001"

NoFile == [present |-> FALSE, rows |-> {}]
File(rows) == [present |-> TRUE, rows |-> rows]
NoDirectory == [exists |-> FALSE, files |-> [s \in Stocks |-> NoFile]]
EmptyDisk == [d \in Days |-> NoDirectory]

Weekday(d) == d % 7 < 5
Max(S) == CHOOSE x \in S : \A y \in S : y <= x

\* the ascending sequence of the elements of a set of days
RECURSIVE Ascending(_)
Ascending(S) ==
    IF S = {} THEN <<>>
    ELSE LET m == CHOOSE x \in S : \A y \in S : x <= y IN <<m>> \o Ascending(S \ {m})

\* _find_latest_data_directory: 0 stands for None
find_latest_data_directory(d) ==
    IF \E day \in Days : d[day].exists THEN Max({day \in Days : d[day].exists}) ELSE 0

\* _check_sample_stock_latest_date: 0 stands for None
check_sample_stock_latest_date(d, dir) ==
    IF ~d[dir].files[SampleStock].present \/ d[dir].files[SampleStock].rows = {} THEN 0
    ELSE Max(d[dir].files[SampleStock].rows)

\* _get_missing_dates
get_missing_dates(latest_date, today) ==
    Ascending({day \in (latest_date + 1)..today : Weekday(day)})

\* Path.mkdir(parents=True, exist_ok=True)
mkdir(d, dir) == [d EXCEPT ![dir].exists = TRUE]

\* _copy_historical_data_to_today
copy_historical_data_to_today(d, source_date, target_date) ==
    IF ~d[source_date].exists THEN d
    ELSE IF d[target_date].exists THEN d
    ELSE [d EXCEPT ![target_date] = [exists |-> TRUE, files |-> d[source_date].files]]

\* StockDataDownloader.process_and_save_data: data holds one row of date for each of the stocks
process_and_save_data(d, data_dir, date, stocks) ==
    [d EXCEPT ![data_dir].files =
        [s \in Stocks |->
            IF s \notin stocks THEN @[s]
            ELSE IF @[s].present THEN File(@[s].rows \cup {date})
            ELSE File({date})]]

\* StockDataDownloader.verify_download_success: at least 95% of the expected files are there
verify_download_success(d, data_dir) ==
    /\ d[data_dir].exists
    /\ 100 * Cardinality({s \in Stocks : d[data_dir].files[s].present}) >= 95 * Cardinality(Stocks)

\* _cleanup_old_data_keep_3_days
cleanup_old_data_keep_3_days(d, current_date) ==
    [day \in Days |-> IF day \in {current_date - i : i \in 0..2} THEN d[day] ELSE NoDirectory]

\* the download loop of update_today_data: the disk and the events after the dates of missing
RECURSIVE DownloadLoop(_, _, _, _)
DownloadLoop(run, today, missing, api) ==
    IF missing = <<>> THEN run
    ELSE LET date_str == Head(missing)
             next == IF api[date_str] # {}
                     THEN [disk |-> process_and_save_data(run.disk, today, date_str, api[date_str]),
                           events |-> Append(run.events, <<"save", date_str>>)]
                     ELSE run
         IN  DownloadLoop(next, today, Tail(missing), api)

\* the dates update_today_data downloads: empty when it returns before the download
MissingDates(d, today) ==
    LET latest_date == find_latest_data_directory(d)
        sample_latest_date == IF latest_date = 0 THEN 0
                              ELSE check_sample_stock_latest_date(d, latest_date)
    IN  IF sample_latest_date = 0 THEN <<>> ELSE get_missing_dates(sample_latest_date, today)

\* update_today_data: api[date] is the set of stocks the daily API returns a row for
update_today_data(d, today, api) ==
    LET latest_date == find_latest_data_directory(d)
        missing_dates == MissingDates(d, today)
        created == mkdir(d, today)
        copied == IF Len(missing_dates) <= 2 /\ ~created[today].exists
                  THEN [disk |-> copy_historical_data_to_today(created, latest_date, today),
                        events |-> <<<<"mkdir", today>>, <<"copy", latest_date>>>>]
                  ELSE [disk |-> created, events |-> <<<<"mkdir", today>>>>]
        downloaded == DownloadLoop(copied, today, missing_dates, api)
    IN  IF missing_dates = <<>> THEN [disk |-> d, events |-> <<>>]
        ELSE IF verify_download_success(downloaded.disk, today)
            THEN [disk |-> cleanup_old_data_keep_3_days(downloaded.disk, today),
                  events |-> Append(downloaded.events, <<"cleanup", today>>)]
        ELSE downloaded

\* nothing of the download package is running
DownloadAtRest ==
    /\ clock = APIRateLimiter(API_CALLS_PER_MINUTE).min_interval
    /\ limiter = APIRateLimiter(API_CALLS_PER_MINUTE)
    /\ threads = [t \in Threads |-> Outside]
    /\ granted = <<>>
    /\ disk = EmptyDisk

(***************************************************************************)
(* Registry operations as actions                                          *)
(***************************************************************************)
StrategyInstances ==
    {NewStrategy(n, I(1), e, f, t) : n \in Names, e \in BOOLEAN, f \in BOOLEAN, t \in Thresholds}

BuiltinIdle == UNCHANGED <<strat, df, out, engine, download>>

\* the core is synchronous: an operation starts once the caller has taken the previous result
Idle == ret.op = "none"

RegisterStrategy ==
    /\ Idle
    /\ \E s \in StrategyInstances :
        /\ strategies' = register_strategy(strategies, s)
        /\ UNCHANGED ret
        /\ BuiltinIdle

\* StockAnalyzer.add_filter_strategy
AddFilterStrategy ==
    /\ Idle
    /\ \E s \in StrategyInstances, t \in Thresholds :
        /\ strategies' = register_strategy(strategies, set_filter_strategy(s, TRUE, TRUE, t))
        /\ UNCHANGED ret
        /\ BuiltinIdle

\* StockAnalyzer.add_scoring_strategy
AddScoringStrategy ==
    /\ Idle
    /\ \E s \in StrategyInstances :
        /\ strategies' = register_strategy(strategies, set_filter_strategy(s, FALSE, FALSE, I(0)))
        /\ UNCHANGED ret
        /\ BuiltinIdle

UnregisterStrategy ==
    /\ Idle
    /\ \E n \in Names :
        /\ strategies' = unregister_strategy(strategies, n)
        /\ UNCHANGED ret
        /\ BuiltinIdle

SetStrategyEnabled ==
    /\ Idle
    /\ \E n \in Names, e \in BOOLEAN :
        /\ strategies' = set_strategy_enabled(strategies, n, e)
        /\ UNCHANGED ret
        /\ BuiltinIdle

Clear ==
    /\ Idle
    /\ strategies' = <<>>
    /\ UNCHANGED ret
    /\ BuiltinIdle

AnalyzeStock ==
    /\ Idle
    /\ \E arg \in NameArgs :
        /\ \E oracle \in Oracles(FlatSelection(strategies, arg)) :
            /\ ret' = RetOf("flat", arg, analyze_stock(strategies, arg, oracle))
            /\ UNCHANGED strategies
            /\ BuiltinIdle

AnalyzeStockWithFiltering ==
    /\ Idle
    /\ \E arg \in NameArgs :
        /\ \E oracle \in Oracles(FilterSelection(strategies, arg) \o ScoringSelection(strategies, arg)) :
            /\ ret' = RetOf("layered", arg, analyze_stock_with_filtering(strategies, arg, oracle))
            /\ UNCHANGED strategies
            /\ BuiltinIdle

\* the caller takes the returned map
ReturnToCaller ==
    /\ ret.op # "none"
    /\ ret' = NoRet
    /\ UNCHANGED strategies
    /\ BuiltinIdle

Init ==
    /\ strategies = <<>>
    /\ ret = NoRet
    /\ strat = JValueStrategy(I(DefaultMaxJ), I(1), FALSE, I(DefaultThreshold))
    /\ df = NoFrame
    /\ out = NoOut
    /\ DownloadAtRest
    /\ engine = ScoringEngine(DefaultMethod)

Next ==
    \/ RegisterStrategy
    \/ AddFilterStrategy
    \/ AddScoringStrategy
    \/ UnregisterStrategy
    \/ SetStrategyEnabled
    \/ Clear
    \/ AnalyzeStock
    \/ AnalyzeStockWithFiltering
    \/ ReturnToCaller

Spec == Init /\ [][Next]_vars

(***************************************************************************)
(* Properties of the registry                                              *)
(***************************************************************************)
Layered == ret.op = "layered"
Called(n) == \E i \in 1..Len(ret.calls) : ret.calls[i] = n
Registered(n) == \E i \in 1..Len(strategies) : strategies[i].name = n
StrategyOf(n) == strategies[CHOOSE i \in 1..Len(strategies) : strategies[i].name = n]
IsFilterName(n) == Registered(n) /\ StrategyOf(n).is_filter_strategy
IsScoringName(n) == Registered(n) /\ ~StrategyOf(n).is_filter_strategy

\* a filter verdict in the returned map that does not clear the gate
FailedFilter(n) ==
    /\ n \in DOMAIN ret.results
    /\ IsFilterName(n)
    /\ ~(ret.results[n].is_qualified /\ RGe(ret.results[n].score, StrategyOf(n).threshold_score))

\* the names the call was asked to use, in the order of the argument
RECURSIVE NamedRegistered(_)
NamedRegistered(q) ==
    IF q = <<>> THEN <<>>
    ELSE (IF Registered(Head(q)) THEN <<Head(q)>> ELSE <<>>) \o NamedRegistered(Tail(q))

RegistryOrder == [i \in 1..Len(strategies) |-> strategies[i].name]
Only(q, Test(_)) == SelectSeq(q, Test)
IsPrefix(p, q) == Len(p) <= Len(q) /\ \A i \in 1..Len(p) : p[i] = q[i]

\* C1: in layered evaluation no scoring strategy is invoked once a filter verdict fails passes_filter
C1_NoScoringAfterFailedFilter ==
    (Layered /\ \E n \in Names : FailedFilter(n))
        => \A i \in 1..Len(ret.calls) : ~IsScoringName(ret.calls[i])

C1_Witness ==
    /\ Layered
    /\ \E n \in Names : FailedFilter(n)
    /\ \E n \in Names : IsScoringName(n) /\ StrategyOf(n).enabled /\ ~ret.arg.given
    /\ Len(ret.calls) >= 2

\* position of a registered name in the registry
RegistryIndex(n) == CHOOSE i \in 1..Len(strategies) : strategies[i].name = n

\* q lists registered names in registration order
InRegistrationOrder(q) ==
    \A i, j \in 1..Len(q) : i < j => RegistryIndex(q[i]) <= RegistryIndex(q[j])

\* the filter strategies in the order the code runs them
FiltersInCallOrder ==
    IF ret.arg.given
    THEN Only(NamedRegistered(ret.arg.names), LAMBDA n : IsFilterName(n))
    ELSE Only(RegistryOrder, LAMBDA n : IsFilterName(n) /\ StrategyOf(n).enabled)

FilterCalls == Only(ret.calls, LAMBDA n : IsFilterName(n))

\* the filters run are a prefix of expected; the run stops at the first failing one, whose
\* verdict is the last entry of the returned map
StopsAtFirstFailure(expected) ==
    /\ IsPrefix(FilterCalls, expected)
    /\ \A i \in 1..Len(FilterCalls) :
          /\ FilterCalls[i] \in DOMAIN ret.results
          /\ ret.results[FilterCalls[i]].strategy_name = FilterCalls[i]
          /\ FailedFilter(FilterCalls[i]) => i = Len(FilterCalls)
    /\ Len(FilterCalls) < Len(expected) =>
          (Len(FilterCalls) > 0 /\ FailedFilter(FilterCalls[Len(FilterCalls)]))
    /\ (\E n \in Names : FailedFilter(n)) =>
          /\ ret.calls = FilterCalls
          /\ DOMAIN ret.results = {FilterCalls[i] : i \in 1..Len(FilterCalls)}

C4_Original == Layered => \A i \in 1..Len(ret.calls) : StrategyOf(ret.calls[i]).enabled

\* C4 amended: the restriction to enabled strategies holds when strategy_names is omitted;
\* a given strategy_names selects the registered strategies it names whatever their enabled flag
C4_EnabledOnlyWhenNamesOmitted ==
    Layered =>
        /\ ~ret.arg.given => \A i \in 1..Len(ret.calls) : StrategyOf(ret.calls[i]).enabled
        /\ ret.arg.given => (ret.calls # <<>> <=> NamedRegistered(ret.arg.names) # <<>>)
        /\ ret.arg.given /\ NamedRegistered(ret.arg.names) # <<>> =>
              ret.calls[1] = (IF FiltersInCallOrder # <<>> THEN FiltersInCallOrder[1]
                              ELSE NamedRegistered(ret.arg.names)[1])

C4_Witness ==
    /\ Layered
    /\ ~ret.arg.given
    /\ Len(ret.calls) >= 1
    /\ \E n \in Names : Registered(n) /\ ~StrategyOf(n).enabled /\ StrategyOf(n).is_filter_strategy

(***************************************************************************)
(* Direct calls of the built-in strategies                                 *)
(***************************************************************************)
MaxJRows == 6            \* longest frame handed to the J-value strategy

ColumnSets == {AllColumns \ {c} : c \in AllColumns} \cup {AllColumns, {}}

JValues == {I(-5), I(0), R(1, 10), I(5), R(13, 2), I(8), R(52, 5), I(10), R(129, 10), I(13), I(20), NaN}
MaxJs == {I(DefaultMaxJ), I(10), I(0)}
FilterThresholds == {I(DefaultThreshold), I(50)}

\* n daily rows in date order, the latest one with J value j
JRows(n, j) == [i \in 1..n |-> Row(i, I(10), I(1000), IF i = n THEN j ELSE I(50))]

JFrames ==
    {NoFrame} \cup
    {Frame(columns, IF descending THEN Reverse(JRows(n, j)) ELSE JRows(n, j)) :
        n \in 0..MaxJRows, columns \in ColumnSets, j \in JValues, descending \in BOOLEAN}

JStrategies == {JValueStrategy(m, I(1), f, t) : m \in MaxJs, f \in BOOLEAN, t \in FilterThresholds}

ScoreArgs == {I(-1), R(-1, 100), I(0), I(55), I(100), R(10001, 100), I(101), NaN}
ConfidenceArgs == {R(-1, 10), I(0), R(1, 2), I(1), R(11, 10), NaN}

RegistryIdle == UNCHANGED <<strategies, ret, engine, download>>

\* calls are made one at a time: the next one starts once the caller has taken the result
Ready == out.op = "none"

\* StrategyResult(...) called with arbitrary numbers
ConstructResult ==
    /\ Ready
    /\ \E q \in BOOLEAN, sc \in ScoreArgs, c \in ConfidenceArgs :
        /\ out' = [op |-> "construct",
                   args |-> [is_qualified |-> q, score |-> sc, confidence |-> c],
                   outcome |-> NewStrategyResult(strat.name, q, sc, c, NoDetails, <<"r">>)]
        /\ df' = NoFrame
        /\ UNCHANGED strat
        /\ RegistryIdle

\* JValueStrategy.analyze(stock_code, stock_name, stock_data)
JAnalyze ==
    /\ Ready
    /\ strat.kind = "J"
    /\ \E f \in JFrames :
        /\ df' = f
        /\ out' = [op |-> "analyze", args |-> NoArgs, outcome |-> JValueAnalyze(strat, f)]
        /\ UNCHANGED strat
        /\ RegistryIdle

\* the caller takes the verdict (or the exception) and lets go of the frame
TakeResult ==
    /\ out.op # "none"
    /\ out' = NoOut
    /\ df' = NoFrame
    /\ UNCHANGED strat
    /\ RegistryIdle

VDays == 7               \* days_to_analyze of the volume strategy under evaluation
MinPriceChange == R(1, 100)
MinVolumeContrast == R(12, 10)

\* one trading day of the analysed window: the close rises by 6 or falls by 3 (from 100),
\* on a volume of 1 or 2
BarKinds == {[move |-> m, vol |-> v] : m \in {6, -3}, v \in {1, 2}}

RECURSIVE CloseAfter(_, _)
CloseAfter(bars, i) == IF i = 0 THEN 100 ELSE CloseAfter(bars, i - 1) + bars[i].move

\* pad quiet days followed by the days described by bars, in date order
VRows(pad, bars) ==
    [i \in 1..(pad + Len(bars)) |->
        IF i <= pad THEN Row(i, I(100), I(1), I(50))
        ELSE Row(i, I(CloseAfter(bars, i - pad)), I(bars[i - pad].vol), I(50))]

ZigZag(n) == [i \in 1..n |-> [move |-> IF i % 2 = 1 THEN 6 ELSE -3,
                              vol |-> IF i % 2 = 1 THEN 2 ELSE 1]]

VFrames ==
    {NoFrame}
    \cup {Frame(AllColumns, VRows(pad, ZigZag(VDays))) : pad \in 0..(ExtraRequired - 1)}
    \cup {Frame(AllColumns, VRows(0, ZigZag(n))) : n \in 0..VDays}
    \cup {Frame(columns, VRows(ExtraRequired, ZigZag(VDays))) : columns \in ColumnSets}
    \cup {Frame(AllColumns, Reverse(VRows(pad, ZigZag(VDays)))) : pad \in 0..(ExtraRequired + 1)}
    \cup {Frame(AllColumns, VRows(ExtraRequired, bars)) : bars \in [1..VDays -> BarKinds]}

DefaultDays == 20        \* days_to_analyze: int = 20

\* a window of 20 days: three up days (close 100 -> 103, volume 32), each followed by a
\* down day (close 103 -> 100, volume 581/43) and preceded by four quiet days (volume 17),
\* so that volume / 5-day mean volume is 1.6 on every up day and 0.7 on every down day
ScenarioBar(p) ==
    IF p \in {5, 11, 17} THEN [close |-> I(103), vol |-> I(32)]
    ELSE IF p \in {6, 12, 18} THEN [close |-> I(100), vol |-> R(581, 43)]
    ELSE [close |-> I(100), vol |-> I(17)]

\* pad quiet days followed by the 20-day window, in date order
ScenarioRows(pad) ==
    [i \in 1..(pad + DefaultDays) |->
        IF i <= pad THEN Row(i, I(100), I(17), I(50))
        ELSE Row(i, ScenarioBar(i - pad).close, ScenarioBar(i - pad).vol, I(50))]

ScenarioFrames ==
    {Frame(AllColumns, IF descending THEN Reverse(ScenarioRows(pad)) ELSE ScenarioRows(pad)) :
        pad \in {0, LookBack, ExtraRequired - 1, ExtraRequired, ExtraRequired + 1},
        descending \in BOOLEAN}

VStrategies == {VolumePatternStrategy(days, MinPriceChange, MinVolumeContrast, I(1)) :
                    days \in {VDays, DefaultDays}}

\* the series handed to a volume strategy: the enumerated windows of VDays days, or the
\* 20-day scenario for the default configuration
FramesFor(s) == IF s.days_to_analyze = DefaultDays THEN ScenarioFrames ELSE VFrames

\* VolumePatternStrategy.analyze(stock_code, stock_name, stock_data)
VAnalyze ==
    /\ Ready
    /\ strat.kind = "V"
    /\ \E f \in FramesFor(strat) :
        /\ df' = f
        /\ out' = [op |-> "analyze", args |-> NoArgs, outcome |-> VolumeAnalyze(strat, f)]
        /\ UNCHANGED strat
        /\ RegistryIdle

InitBuiltin ==
    /\ strategies = <<>>
    /\ ret = NoRet
    /\ strat \in JStrategies \cup VStrategies
    /\ df = NoFrame
    /\ out = NoOut
    /\ DownloadAtRest
    /\ engine = ScoringEngine(DefaultMethod)

NextBuiltin ==
    \/ ConstructResult
    \/ JAnalyze
    \/ VAnalyze
    \/ TakeResult

SpecBuiltin == InitBuiltin /\ [][NextBuiltin]_vars

(***************************************************************************)
(* Direct calls of the ScoringEngine                                       *)
(***************************************************************************)
MaxResults == 2          \* verdicts handed to one calculate_stock_score call
EngineNames == {"A", "B", "C"}

\* what a verdict handed to the engine carries: score, is_qualified, confidence
VerdictProfiles ==
    {<<I(0), FALSE, I(0)>>, <<I(50), TRUE, R(1, 2)>>, <<I(60), FALSE, R(1, 10)>>,
     <<I(80), TRUE, R(9, 10)>>, <<I(90), TRUE, R(7, 10)>>}

EngineVerdict(name, profile) ==
    NewStrategyResult(name, profile[2], profile[1], profile[3], NoDetails, <<"r">>).value

\* the dicts {name: verdict} of at most n verdicts, in every insertion order
RECURSIVE ResultDicts(_)
ResultDicts(n) ==
    IF n = 0 THEN {<<>>}
    ELSE LET shorter == ResultDicts(n - 1)
         IN  shorter \cup
             {Append(dict, Item(name, EngineVerdict(name, profile))) :
                  dict \in {x \in shorter : Len(x) = n - 1},
                  name \in EngineNames, profile \in VerdictProfiles}

DistinctKeys(dict) == Cardinality(Keys(dict)) = Len(dict)

WeightArgs ==
    {NoWeights,
     GivenWeights(<<>>),
     GivenWeights(<<Item("A", I(1)), Item("B", I(1)), Item("C", I(1))>>),
     GivenWeights(<<Item("A", R(2, 5)), Item("B", R(3, 5)), Item("C", R(3, 5))>>),
     GivenWeights(<<Item("A", I(0)), Item("B", I(0)), Item("C", I(0))>>),
     GivenWeights(<<Item("B", I(1)), Item("A", I(2))>>),
     GivenWeights(<<Item("A", I(0)), Item("B", I(1)), Item("C", I(2))>>)}

FilterArgs ==
    {NoNames, GivenNames(<<>>), GivenNames(<<"A">>), GivenNames(<<"C">>), GivenNames(<<"A", "B">>)}

EngineOnly == UNCHANGED <<strategies, ret, strat, df, download>>

\* ScoringEngine.calculate_stock_score(stock_code, stock_name, strategy_results, ...)
CalculateStockScore ==
    /\ Ready
    /\ \E results \in {x \in ResultDicts(MaxResults) : DistinctKeys(x)},
          weights \in WeightArgs, filters \in FilterArgs :
        /\ out' = [op |-> "score",
                   args |-> [strategy_results |-> results, strategy_weights |-> weights,
                             filter_strategy_names |-> filters],
                   outcome |-> calculate_stock_score(engine, "S", results, weights, filters)]
        /\ UNCHANGED engine
        /\ EngineOnly

\* ScoringEngine(scoring_method): the constructor takes any method name
InitScoring ==
    /\ strategies = <<>>
    /\ ret = NoRet
    /\ strat = JValueStrategy(I(DefaultMaxJ), I(1), FALSE, I(DefaultThreshold))
    /\ df = NoFrame
    /\ out = NoOut
    /\ DownloadAtRest
    /\ engine \in {ScoringEngine(m) : m \in ValidMethods \cup {"rank_sum"}}

NextScoring ==
    \/ CalculateStockScore
    \/ TakeResult

SpecScoring == InitScoring /\ [][NextScoring]_vars

MaxStocks == 3           \* StockScores handed to one rank_stocks call

\* the verdicts and weights the StockScores to be ranked are computed from
StockProfiles ==
    LET v(name, score, qualified, confidence) ==
            Item(name, EngineVerdict(name, <<score, qualified, confidence>>))
    IN  {[results |-> <<v("A", I(80), TRUE, R(9, 10)), v("B", I(60), FALSE, R(1, 10))>>,
          weights |-> NoWeights],
         [results |-> <<v("A", I(80), TRUE, R(9, 10)), v("B", I(60), FALSE, R(1, 10))>>,
          weights |-> GivenWeights(<<Item("A", I(0)), Item("B", I(1))>>)],
         [results |-> <<v("A", I(50), TRUE, R(1, 2)), v("B", I(90), TRUE, R(7, 10))>>,
          weights |-> GivenWeights(<<Item("A", R(2, 5)), Item("B", R(3, 5))>>)],
         [results |-> <<v("A", I(0), FALSE, I(0))>>, weights |-> NoWeights],
         [results |-> <<v("A", I(90), TRUE, R(7, 10))>>, weights |-> NoWeights],
         [results |-> <<v("A", I(60), FALSE, R(1, 10)), v("B", I(50), TRUE, R(1, 2))>>,
          weights |-> GivenWeights(<<Item("A", I(2)), Item("B", I(0))>>)]}

\* the lists of at most n StockScores; the i-th stock has the code i
StockLists(n) ==
    UNION {{[i \in 1..k |->
                calculate_stock_score(ScoringEngine(DefaultMethod), i, profile[i].results,
                                      profile[i].weights, NoNames).value] :
              profile \in [1..k -> StockProfiles]} : k \in 0..n}

SortKeys == {"total_score", "weighted_score", "qualified_count", "confidence"}
MinScores == {I(0), I(60)}
CountArgs == {NoCount, GivenCount(2)}

\* ScoringEngine.rank_stocks(stock_scores, sort_by, min_score, min_qualified_strategies)
RankStocks ==
    /\ Ready
    /\ \E list \in StockLists(MaxStocks), sort_by \in SortKeys, min_score \in MinScores,
          count \in CountArgs :
        /\ out' = [op |-> "rank",
                   args |-> [stock_scores |-> list, sort_by |-> sort_by, min_score |-> min_score,
                             min_qualified_strategies |-> count, previous |-> <<>>],
                   outcome |-> Returned(rank_stocks(engine, list, sort_by, min_score, count))]
        /\ UNCHANGED engine
        /\ EngineOnly

\* rank_stocks called again on the StockScores of the list it has just returned
RankAgain ==
    /\ out.op = "rank"
    /\ LET ranked == out.outcome.value
           list == [i \in 1..Len(ranked) |-> ranked[i].stock_score]
       IN  out' = [op |-> "rerank",
                   args |-> [out.args EXCEPT !.stock_scores = list, !.previous = ranked],
                   outcome |-> Returned(rank_stocks(engine, list, out.args.sort_by,
                                                    out.args.min_score,
                                                    out.args.min_qualified_strategies))]
    /\ UNCHANGED engine
    /\ EngineOnly

\* a ScoringEngine whose min_qualified_strategies has been set
InitRanking ==
    /\ strategies = <<>>
    /\ ret = NoRet
    /\ strat = JValueStrategy(I(DefaultMaxJ), I(1), FALSE, I(DefaultThreshold))
    /\ df = NoFrame
    /\ out = NoOut
    /\ DownloadAtRest
    /\ engine \in {set_min_qualified_strategies(ScoringEngine(DefaultMethod), n).value : n \in 0..2}

NextRanking ==
    \/ RankStocks
    \/ RankAgain
    \/ TakeResult

SpecRanking == InitRanking /\ [][NextRanking]_vars

\* StockAnalyzer._register_default_strategies
DefaultStrategies ==
    register_strategy(
        register_strategy(<<>>, JValueStrategy(I(DefaultMaxJ), I(1), FALSE, I(DefaultThreshold))),
        VolumePatternStrategy(DefaultDays, MinPriceChange, MinVolumeContrast, I(1)))

MethodArgs == ValidMethods \cup {"rank_sum", ""}
CountValues == -2..2
WeightValues == {I(-1), R(-1, 10), I(0), R(1, 2), I(2)}
StrategyNameArgs == {"JValue", "VolumePattern", "Unknown"}

\* ScoringEngine.set_scoring_method(method)
SetScoringMethod ==
    /\ Ready
    /\ \E method \in MethodArgs :
        LET r == set_scoring_method(engine, method)
        IN  /\ out' = [op |-> "set_scoring_method",
                       args |-> [value |-> method, before |-> engine.scoring_method], outcome |-> r]
            /\ engine' = IF r.raises THEN engine ELSE r.value
    /\ UNCHANGED <<strategies, ret, strat, df, download>>

\* ScoringEngine.set_min_qualified_strategies(count)
SetMinQualifiedStrategies ==
    /\ Ready
    /\ \E count \in CountValues :
        LET r == set_min_qualified_strategies(engine, count)
        IN  /\ out' = [op |-> "set_min_qualified_strategies",
                       args |-> [value |-> count, before |-> engine.min_qualified_strategies],
                       outcome |-> r]
            /\ engine' = IF r.raises THEN engine ELSE r.value
    /\ UNCHANGED <<strategies, ret, strat, df, download>>

\* BaseStrategy.set_weight(weight) on a strategy object
SetWeight ==
    /\ Ready
    /\ \E weight \in WeightValues :
        LET r == set_weight(strat, weight)
        IN  /\ out' = [op |-> "set_weight",
                       args |-> [value |-> weight, before |-> strat.weight], outcome |-> r]
            /\ strat' = IF r.raises THEN strat ELSE r.value
    /\ UNCHANGED <<strategies, ret, df, engine, download>>

\* StrategyRegistry.set_strategy_weight(name, weight)
SetStrategyWeight ==
    /\ Ready
    /\ \E name \in StrategyNameArgs, weight \in WeightValues :
        LET r == set_strategy_weight(strategies, name, weight)
        IN  /\ out' = [op |-> "set_strategy_weight",
                       args |-> [name |-> name, value |-> weight, before |-> strategies],
                       outcome |-> r]
            /\ strategies' = IF r.raises THEN strategies ELSE r.value
    /\ UNCHANGED <<ret, strat, df, engine, download>>

\* the registry of a StockAnalyzer after construction, and a strategy object constructed
\* like one of its default strategies
InitConfig ==
    /\ strategies = DefaultStrategies
    /\ ret = NoRet
    /\ strat \in {DefaultStrategies[i] : i \in 1..Len(DefaultStrategies)}
    /\ df = NoFrame
    /\ out = NoOut
    /\ DownloadAtRest
    /\ engine = ScoringEngine(DefaultMethod)

NextConfig ==
    \/ SetScoringMethod
    \/ SetMinQualifiedStrategies
    \/ SetWeight
    \/ SetStrategyWeight
    \/ TakeResult

SpecConfig == InitConfig /\ [][NextConfig]_vars

\* the strategy objects a caller can construct: BaseStrategy.__init__ stores weight as given
ConstructedStrategies ==
    {JValueStrategy(I(DefaultMaxJ), w, FALSE, I(DefaultThreshold)) : w \in WeightValues}
    \cup {VolumePatternStrategy(DefaultDays, MinPriceChange, MinVolumeContrast, w) :
            w \in WeightValues}

\* StrategyRegistry.register_strategy(strategy) with a newly constructed strategy
RegisterConstructed ==
    /\ Ready
    /\ \E s \in ConstructedStrategies :
        /\ out' = [op |-> "register_strategy", args |-> [name |-> s.name, value |-> s.weight],
                   outcome |-> Returned(NoValue)]
        /\ strategies' = register_strategy(strategies, s)
    /\ UNCHANGED <<ret, strat, df, engine, download>>

\* BaseStrategy.set_weight(weight) on a strategy object the registry holds
SetWeightOfRegistered ==
    /\ Ready
    /\ \E i \in 1..Len(strategies), weight \in WeightValues :
        LET r == set_weight(strategies[i], weight)
        IN  /\ out' = [op |-> "set_weight",
                       args |-> [name |-> strategies[i].name, value |-> weight,
                                 before |-> strategies[i].weight],
                       outcome |-> r]
            /\ strategies' = IF r.raises THEN strategies ELSE [strategies EXCEPT ![i] = r.value]
    /\ UNCHANGED <<ret, strat, df, engine, download>>

InitWeights ==
    /\ strategies = DefaultStrategies
    /\ ret = NoRet
    /\ strat = DefaultStrategies[1]
    /\ df = NoFrame
    /\ out = NoOut
    /\ DownloadAtRest
    /\ engine = ScoringEngine(DefaultMethod)

NextWeights ==
    \/ RegisterConstructed
    \/ SetWeightOfRegistered
    \/ SetStrategyWeight
    \/ TakeResult

SpecWeights == InitWeights /\ [][NextWeights]_vars

MaxBars == 3             \* bars of a series handed to _calculate_kdj

\* low, high and close of a bar: two one-price bars and three bars with a range
BarPrices == {<<10, 10, 10>>, <<12, 12, 12>>, <<10, 12, 11>>, <<10, 12, 12>>, <<8, 12, 8>>}

\* the series of at most n bars, with the trade dates 1..k in any order
DateOrders(k) == {f \in [1..k -> 1..k] : \A a, b \in 1..k : f[a] = f[b] => a = b}
KDJSeries(n) ==
    UNION {{[i \in 1..k |-> Bar(date[i], I(price[i][1]), I(price[i][2]), I(price[i][3]))] :
              date \in DateOrders(k), price \in [1..k -> BarPrices]} : k \in 0..n}

\* StockDataDownloader._calculate_kdj(data)
CalculateKDJ ==
    /\ Ready
    /\ \E data \in KDJSeries(MaxBars) :
        out' = [op |-> "kdj", args |-> [data |-> data], outcome |-> Returned(calculate_kdj(data))]
    /\ UNCHANGED <<strategies, ret, strat, df, engine, download>>

InitIndicators ==
    /\ strategies = <<>>
    /\ ret = NoRet
    /\ strat = JValueStrategy(I(DefaultMaxJ), I(1), FALSE, I(DefaultThreshold))
    /\ df = NoFrame
    /\ out = NoOut
    /\ DownloadAtRest
    /\ engine = ScoringEngine(DefaultMethod)

NextIndicators ==
    \/ CalculateKDJ
    \/ TakeResult

SpecIndicators == InitIndicators /\ [][NextIndicators]_vars

(***************************************************************************)
(* StockAnalyzer   (analyze/core/stock_analyzer.py)                        *)
(***************************************************************************)
\* the dict analyze_stock_with_filtering returns, in insertion order
DictItems(run) ==
    LET first == SelectSeq([i \in 1..Len(run.calls) |-> i],
                           LAMBDA i : /\ run.calls[i] \in DOMAIN run.results
                                      /\ \A j \in 1..(i - 1) : run.calls[j] # run.calls[i])
    IN  [k \in 1..Len(first) |-> Item(run.calls[first[k]], run.results[run.calls[first[k]]])]

\* StockAnalyzer._get_strategy_weights
get_strategy_weights(reg, arg) ==
    LET q == IF ~arg.given THEN get_enabled_strategies(reg) ELSE Lookup(reg, arg.names)
        first == SelectSeq([i \in 1..Len(q) |-> i],
                           LAMBDA i : \A j \in 1..(i - 1) : q[j].name # q[i].name)
    IN  [k \in 1..Len(first) |-> Item(q[first[k]].name, q[first[k]].weight)]

\* AnalysisResults(stock_scores, ranked_stocks, ...)
AnalysisResults(stock_scores, ranked_stocks) ==
    [stock_scores |-> stock_scores, ranked_stocks |-> ranked_stocks]

\* lines 224-247 of analyze_stocks: the scores of the kept stocks are ranked, and an
\* exception of calculate_stock_score leaves the method
score_and_rank(eng, scored) ==
    LET stock_scores == [i \in 1..Len(scored) |-> scored[i].value]
    IN  IF \E i \in 1..Len(scored) : scored[i].raises
            THEN Raised(scored[CHOOSE i \in 1..Len(scored) : scored[i].raises].error)
        ELSE Returned(AnalysisResults(stock_scores,
                                      rank_stocks(eng, stock_scores, "weighted_score", I(0),
                                                  GivenCount(1))))

\* StockAnalyzer.analyze_stocks, from the loop over stocks_data on: oracles[k] says what each
\* strategy's analyze does for the k-th stock that has data; the stock codes are 1, 2, ...
analyze_stocks(reg, eng, arg, oracles) ==
    LET results == [k \in 1..Len(oracles) |->
                        DictItems(analyze_stock_with_filtering(reg, arg, oracles[k]))]
        kept == SelectSeq([k \in 1..Len(oracles) |-> k], LAMBDA k : results[k] # <<>>)
        strategy_weights == get_strategy_weights(reg, arg)
        filters == get_filter_strategies(reg)
        filter_strategy_names == [i \in 1..Len(filters) |-> filters[i].name]
    IN  IF oracles = <<>> THEN Returned(AnalysisResults(<<>>, <<>>))
        ELSE score_and_rank(eng, [i \in 1..Len(kept) |->
                       calculate_stock_score(eng, kept[i], results[kept[i]],
                                             GivenWeights(strategy_weights),
                                             GivenNames(filter_strategy_names))])

\* the registry analyze_j_under_value works on
JOnlyStrategies(max_j_value) ==
    register_strategy(<<>>, JValueStrategy(max_j_value, I(1), FALSE, I(DefaultThreshold)))

\* the registry analyze_j_with_volume_pattern works on
JWithVolumeStrategies(max_j_value, days_to_analyze) ==
    register_strategy(
        register_strategy(<<>>, JValueStrategy(max_j_value, R(3, 5), FALSE, I(DefaultThreshold))),
        VolumePatternStrategy(days_to_analyze, MinPriceChange, MinVolumeContrast, R(2, 5)))

\* the finally clause of lines 267-270 and 302-305: the registry is cleared and the default
\* strategies are registered again, whether the body returned or raised
after_analysis(outcome) == [outcome |-> outcome, registry |-> DefaultStrategies]

\* lines 296-301: only the ranked stocks that at least two strategies qualified are kept
with_filtered_ranking(results) ==
    IF results.raises THEN results
    ELSE Returned(AnalysisResults(
             results.value.stock_scores,
             SelectSeq(results.value.ranked_stocks,
                       LAMBDA ranked : qualified_count(ranked.stock_score) >= 2)))

\* analyze_j_under_value: the AnalysisResults (or the exception) and the registry it leaves
analyze_j_under_value(reg, eng, max_j_value, oracles, load_fails) ==
    IF load_fails THEN after_analysis(Raised("IOError"))
    ELSE after_analysis(
             analyze_stocks(JOnlyStrategies(max_j_value), eng,
                            GivenNames(<<JOnlyStrategies(max_j_value)[1].name>>), oracles))

\* analyze_j_with_volume_pattern: the AnalysisResults (or the exception) and the registry it leaves
analyze_j_with_volume_pattern(reg, eng, max_j_value, days_to_analyze, oracles, load_fails) ==
    IF load_fails THEN after_analysis(Raised("IOError"))
    ELSE after_analysis(with_filtered_ranking(
             analyze_stocks(JWithVolumeStrategies(max_j_value, days_to_analyze), eng, NoNames,
                            oracles)))

MaxSecurities == 2       \* stocks with data in one analysis run

\* what a strategy's analyze returns for a stock: a disqualified verdict, a qualified verdict
\* with score 55, or a qualified verdict with score 100
AnalyzerBehaviours == {"no", "weak", "full"}
OracleLists(q, n) == UNION {[1..k -> [NameSet(q) -> AnalyzerBehaviours]] : k \in 0..n}

\* StockAnalyzer.add_filter_strategy(JValueStrategy()) and add_scoring_strategy(custom strategy)
Customize ==
    /\ Ready
    /\ \/ strategies' = register_strategy(strategies,
              set_filter_strategy(JValueStrategy(I(DefaultMaxJ), I(1), FALSE, I(DefaultThreshold)),
                                  TRUE, TRUE, I(DefaultThreshold)))
       \/ strategies' = register_strategy(strategies,
              set_filter_strategy(NewStrategy("A", I(1), TRUE, FALSE, I(DefaultThreshold)),
                                  FALSE, FALSE, I(DefaultThreshold)))
    /\ UNCHANGED <<ret, strat, df, out, engine, download>>

\* StockAnalyzer.analyze_stocks() with strategy_names omitted
AnalyzeStocks ==
    /\ Ready
    /\ \E oracles \in OracleLists(strategies, MaxSecurities) :
        out' = [op |-> "analyze_stocks",
                args |-> [strategy_names |-> NoNames, oracles |-> oracles, before |-> strategies],
                outcome |-> analyze_stocks(strategies, engine, NoNames, oracles)]
    /\ UNCHANGED <<strategies, ret, strat, df, engine, download>>

\* a predefined analysis hands back its outcome and leaves the registry of its finally clause
Leave(op, oracles, r) ==
    /\ out' = [op |-> op,
               args |-> [strategy_names |-> NoNames, oracles |-> oracles, before |-> strategies],
               outcome |-> r.outcome]
    /\ strategies' = r.registry

\* StockAnalyzer.analyze_j_under_value()
AnalyzeJUnderValue ==
    /\ Ready
    /\ \E oracles \in OracleLists(JOnlyStrategies(I(DefaultMaxJ)), MaxSecurities),
          load_fails \in BOOLEAN :
        Leave("analyze_j_under_value", oracles,
              analyze_j_under_value(strategies, engine, I(DefaultMaxJ), oracles, load_fails))
    /\ UNCHANGED <<ret, strat, df, engine, download>>

\* StockAnalyzer.analyze_j_with_volume_pattern()
AnalyzeJWithVolumePattern ==
    /\ Ready
    /\ \E oracles \in OracleLists(JWithVolumeStrategies(I(DefaultMaxJ), DefaultDays), MaxSecurities),
          load_fails \in BOOLEAN :
        Leave("analyze_j_with_volume_pattern", oracles,
              analyze_j_with_volume_pattern(strategies, engine, I(DefaultMaxJ), DefaultDays,
                                            oracles, load_fails))
    /\ UNCHANGED <<ret, strat, df, engine, download>>

\* a StockAnalyzer after construction
InitAnalyzer ==
    /\ strategies = DefaultStrategies
    /\ ret = NoRet
    /\ strat = DefaultStrategies[1]
    /\ df = NoFrame
    /\ out = NoOut
    /\ DownloadAtRest
    /\ engine = ScoringEngine(DefaultMethod)

NextAnalyzer ==
    \/ Customize
    \/ AnalyzeStocks
    \/ AnalyzeJUnderValue
    \/ AnalyzeJWithVolumePattern
    \/ TakeResult

SpecAnalyzer == InitAnalyzer /\ [][NextAnalyzer]_vars

(***************************************************************************)
(* Threads calling APIRateLimiter.wait_if_needed                           *)
(***************************************************************************)
AnalysisIdle == UNCHANGED <<strategies, ret, strat, df, out, engine>>

\* with self.lock: current_time = time.time(), and the sleep_time of lines 53-57
EnterWait ==
    /\ \E t \in Threads :
        /\ threads[t].pc = "outside"
        /\ limiter.lock = 0
        /\ limiter' = [limiter EXCEPT !.lock = t]
        /\ threads' = [threads EXCEPT ![t] = [pc |-> "sleeping", current_time |-> clock,
                                              sleep_time |-> sleep_time(limiter, clock)]]
    /\ UNCHANGED <<clock, granted, disk>>
    /\ AnalysisIdle

\* time.sleep(sleep_time) has returned: last_call_time = time.time(), the count, and the
\* release of the lock
LeaveWait ==
    /\ \E t \in Threads :
        /\ threads[t].pc = "sleeping"
        /\ clock >= threads[t].current_time + threads[t].sleep_time
        /\ limiter' = [limiter EXCEPT !.last_call_time = clock, !.call_count = @ + 1, !.lock = 0]
        /\ granted' = Append(granted, clock)
        /\ threads' = [threads EXCEPT ![t] = Outside]
    /\ UNCHANGED <<clock, disk>>
    /\ AnalysisIdle

\* half a second passes
Tick ==
    /\ clock < MaxTime
    /\ clock' = clock + 1
    /\ UNCHANGED <<limiter, threads, granted, disk>>
    /\ AnalysisIdle

InitLimiter ==
    /\ strategies = <<>>
    /\ ret = NoRet
    /\ strat = JValueStrategy(I(DefaultMaxJ), I(1), FALSE, I(DefaultThreshold))
    /\ df = NoFrame
    /\ out = NoOut
    /\ engine = ScoringEngine(DefaultMethod)
    /\ DownloadAtRest

NextLimiter ==
    \/ EnterWait
    \/ LeaveWait
    \/ Tick

SpecLimiter == InitLimiter /\ [][NextLimiter]_vars

(***************************************************************************)
(* Runs of update_today_data                                               *)
(***************************************************************************)
\* the data directory download_today_data leaves on a day: the full history of every stock it
\* could fetch
DiskAfterDownload(day, stocks) ==
    [EmptyDisk EXCEPT ![day] =
        [exists |-> TRUE,
         files |-> [s \in Stocks |-> IF s \in stocks THEN File({d \in 1..day : Weekday(d)})
                                     ELSE NoFile]]]

\* update_today_data() on a day not before the newest data directory
UpdateTodayData ==
    /\ Ready
    /\ \E today \in Days :
        /\ today >= find_latest_data_directory(disk)
        /\ LET missing_dates == MissingDates(disk, today)
           IN  \E api \in [{missing_dates[i] : i \in 1..Len(missing_dates)} -> SUBSET Stocks] :
                 LET r == update_today_data(disk, today, api)
                 IN  /\ out' = [op |-> "update_today_data",
                                args |-> [today |-> today, api |-> api, before |-> disk],
                                outcome |-> Returned(r.events)]
                     /\ disk' = r.disk
    /\ UNCHANGED <<strategies, ret, strat, df, engine, clock, limiter, threads, granted>>

\* the caller takes note of the run
UpdateDone ==
    /\ out.op = "update_today_data"
    /\ out' = NoOut
    /\ UNCHANGED <<strategies, ret, strat, df, engine, download>>

InitUpdate ==
    /\ strategies = <<>>
    /\ ret = NoRet
    /\ strat = JValueStrategy(I(DefaultMaxJ), I(1), FALSE, I(DefaultThreshold))
    /\ df = NoFrame
    /\ out = NoOut
    /\ engine = ScoringEngine(DefaultMethod)
    /\ clock = APIRateLimiter(API_CALLS_PER_MINUTE).min_interval
    /\ limiter = APIRateLimiter(API_CALLS_PER_MINUTE)
    /\ threads = [t \in Threads |-> Outside]
    /\ granted = <<>>
    /\ disk \in {EmptyDisk} \cup {DiskAfterDownload(day, stocks) :
                                     day \in {d \in Days : Weekday(d)}, stocks \in SUBSET Stocks}

NextUpdate ==
    \/ UpdateTodayData
    \/ UpdateDone

SpecUpdate == InitUpdate /\ [][NextUpdate]_vars

(***************************************************************************)
(* Properties of the built-in strategies                                   *)
(***************************************************************************)
Analyzed == out.op = "analyze"
Verdict == out.outcome.value
InRange(x, lo, hi) == RLe(lo, x) /\ RLe(x, hi)

\* C5: with the default threshold 100 a filter strategy passes exactly its qualified verdicts
C5_DefaultThresholdMeansQualified ==
    (Analyzed /\ ~out.outcome.raises /\ strat.is_filter_strategy
        /\ strat.threshold_score = I(DefaultThreshold))
        => (passes_filter(strat, Verdict) <=> Verdict.is_qualified)

\* C6: a StrategyResult is built exactly when 0 <= score <= 100 and 0 <= confidence <= 1,
\* it then keeps the numbers it was given, and any other construction raises
C6_ResultRangeEnforced ==
    /\ (out.op = "construct") =>
          /\ out.outcome.raises <=> ~(InRange(out.args.score, I(0), I(100))
                                       /\ InRange(out.args.confidence, I(0), I(1)))
          /\ ~out.outcome.raises =>
                /\ Verdict.score = out.args.score
                /\ Verdict.confidence = out.args.confidence
                /\ Verdict.is_qualified = out.args.is_qualified
    /\ (out.op # "none" /\ ~out.outcome.raises) =>
          /\ InRange(Verdict.score, I(0), I(100))
          /\ InRange(Verdict.confidence, I(0), I(1))

C6_Witness ==
    /\ out.op = "construct"
    /\ out.args.score = R(10001, 100)
    /\ out.args.confidence = I(1)
    /\ out.outcome.raises

\* the bar of the series in df with the latest trade date
LatestBar ==
    CHOOSE r \in {df.rows[i] : i \in 1..Len(df.rows)} :
        \A i \in 1..Len(df.rows) : df.rows[i].trade_date <= r.trade_date

RequiredColumns == IF strat.kind = "J" THEN AllColumns ELSE AllColumns \ {"J"}
MinimumLength == IF strat.kind = "J" THEN JMinLength ELSE strat.days_to_analyze + ExtraRequired
BadSeries ==
    \/ df.none
    \/ df.rows = <<>>
    \/ RequiredColumns \ df.columns # {}
    \/ Len(df.rows) < MinimumLength
FailedVerdict ==
    /\ ~out.outcome.raises
    /\ ~Verdict.is_qualified
    /\ Verdict.score = I(0)
    /\ Verdict.confidence = I(0)

\* C7: on an empty series, a series without a required column or a series shorter than
\* the strategy's minimum length, either built-in strategy returns a disqualified verdict
\* with score 0 and confidence 0 and does not raise
C7_InsufficientDataVerdict == (Analyzed /\ BadSeries) => FailedVerdict

C7_Witness ==
    /\ Analyzed
    /\ strat.kind = "V"
    /\ ~df.none
    /\ df.columns = AllColumns
    /\ Len(df.rows) = MinimumLength - 1
    /\ FailedVerdict

\* C8: for a ceiling maxJ > 0 and a latest J value, the J-value strategy qualifies iff
\* J < maxJ, scores 100 for J <= 0, 0 for J >= maxJ and 100 - (J/maxJ)*90 in between
\* (above 10 for a qualifying J > 0), with confidence 0.9 / 0.7 / 0.5 for J <= 0.5*maxJ,
\* J <= 0.8*maxJ and above; maxJ = 13 gives (true, 55, 0.9) at J = 6.5 and (false, 0) at J = 13
C8_JValueVerdict ==
    (Analyzed /\ strat.kind = "J" /\ ~BadSeries /\ ~IsNaN(LatestBar.J)
        /\ RGt(strat.max_j_value, I(0))) =>
        LET j == LatestBar.J
            maxJ == strat.max_j_value
        IN  /\ ~out.outcome.raises
            /\ Verdict.is_qualified <=> RLt(j, maxJ)
            /\ Verdict.score = IF RLe(j, I(0)) THEN I(100)
                               ELSE IF RGe(j, maxJ) THEN I(0)
                               ELSE RSub(I(100), RMul(RDiv(j, maxJ), I(90)))
            /\ (Verdict.is_qualified /\ RGt(j, I(0))) => RGt(Verdict.score, I(10))
            /\ Verdict.confidence = IF RLe(j, RMul(R(1, 2), maxJ)) THEN R(9, 10)
                                    ELSE IF RLe(j, RMul(R(4, 5), maxJ)) THEN R(7, 10)
                                    ELSE R(1, 2)
            /\ (maxJ = I(13) /\ j = R(13, 2)) =>
                   Verdict.is_qualified /\ Verdict.score = I(55) /\ Verdict.confidence = R(9, 10)
            /\ (maxJ = I(13) /\ j = I(13)) => ~Verdict.is_qualified /\ Verdict.score = I(0)

C8_Witness ==
    /\ Analyzed
    /\ strat.kind = "J"
    /\ ~BadSeries
    /\ strat.max_j_value = I(13)
    /\ LatestBar.J = R(13, 2)
    /\ df.rows[1].trade_date > df.rows[2].trade_date
    /\ Verdict.is_qualified
    /\ Verdict.score = I(55)

\* the bar with trade date d, and the daily return of that bar
BarOn(d) == CHOOSE r \in {df.rows[i] : i \in 1..Len(df.rows)} : r.trade_date = d
DailyReturn(d) == RSub(RDiv(BarOn(d).close, BarOn(d - 1).close), I(1))
\* the trade dates of the trailing days_to_analyze bars (dates are 1..Len(df.rows))
Window == (Len(df.rows) - strat.days_to_analyze + 1)..Len(df.rows)
UpDates == {d \in Window : RGt(DailyReturn(d), R(1, 100))}
DownDates == {d \in Window : RLt(DailyReturn(d), R(-1, 100))}

VolumeAnalyzed == Analyzed /\ strat.kind = "V" /\ ~BadSeries
\* the verdict carries the analysis of a window that had enough up days and down days
HasAnalysis == ~out.outcome.raises /\ "up_days_count" \in DOMAIN Verdict.details

\* C9: the volume/price strategy qualifies a security iff avg_ratio_up / avg_ratio_down >=
\* contrastMin, avg_ratio_up >= 1 and avg_ratio_down <= 1 all hold, and a window with fewer
\* than 3 up days or fewer than 3 down days gives the disqualified verdict with score 0 and
\* confidence 0 instead of an error
C9_QualifiesIffThreeConditions ==
    VolumeAnalyzed =>
        /\ HasAnalysis =>
              LET a == Verdict.details
              IN  Verdict.is_qualified <=>
                      /\ RGe(RDiv(a.avg_vol_ratio_up, a.avg_vol_ratio_down), strat.min_volume_contrast)
                      /\ RGe(a.avg_vol_ratio_up, I(1))
                      /\ RLe(a.avg_vol_ratio_down, I(1))
        /\ (Cardinality(UpDates) < 3 \/ Cardinality(DownDates) < 3) => FailedVerdict

\* the four sub-scores of an analysis, added up and capped at 100
TierSum(a) ==
    LET contrast == IF RGe(a.volume_contrast, I(2)) THEN I(40)
                    ELSE IF RGe(a.volume_contrast, R(3, 2)) THEN I(30)
                    ELSE IF RGe(a.volume_contrast, strat.min_volume_contrast) THEN I(20) ELSE I(0)
        up == IF RGe(a.avg_vol_ratio_up, R(3, 2)) THEN I(30)
              ELSE IF RGe(a.avg_vol_ratio_up, R(6, 5)) THEN I(20)
              ELSE IF RGe(a.avg_vol_ratio_up, I(1)) THEN I(10) ELSE I(0)
        down == IF RLe(a.avg_vol_ratio_down, R(4, 5)) THEN I(20)
                ELSE IF RLe(a.avg_vol_ratio_down, R(9, 10)) THEN I(15)
                ELSE IF RLe(a.avg_vol_ratio_down, I(1)) THEN I(10) ELSE I(0)
        recent == IF RGt(a.recent_return_5d, I(0)) THEN RMin(I(10), a.recent_return_5d) ELSE I(0)
    IN  RMin(I(100), RAdd(RAdd(contrast, up), RAdd(down, recent)))

\* C10 as stated: every verdict of a window with enough samples scores the capped sum of
\* the four tiered sub-scores
C10_Original == (VolumeAnalyzed /\ HasAnalysis) => Verdict.score = TierSum(Verdict.details)

\* C10: a qualifying verdict of the volume/price strategy scores the capped sum of the four
\* tiered sub-scores, and a disqualified verdict of a window with enough samples scores 0
C10_ScoreOfQualifyingVerdict ==
    (VolumeAnalyzed /\ HasAnalysis) =>
        Verdict.score = IF Verdict.is_qualified THEN TierSum(Verdict.details) ELSE I(0)

C10_Witness ==
    /\ VolumeAnalyzed
    /\ HasAnalysis
    /\ Verdict.is_qualified
    /\ RGt(Verdict.details.recent_return_5d, I(10))
    /\ RGe(Verdict.details.volume_contrast, I(2))
    /\ Verdict.score = TierSum(Verdict.details)

\* the recent-return sub-score of an analysis
RecentSubScore(a) ==
    IF RGt(a.recent_return_5d, I(0)) THEN RMin(I(10), a.recent_return_5d) ELSE I(0)

\* the volume / 5-day mean volume of the bar with trade date d, the mean taken over the
\* bar and the four bars before it in the series
SeededRatio(d) ==
    RDiv(BarOn(d).vol, RDiv(SumOver((d - 4)..d, [k \in 1..Len(df.rows) |-> BarOn(k).vol]), I(5)))

\* the series in df is the scenario of C11 on n bars: exactly 3 up days of average volume
\* ratio 1.6 and exactly 3 down days of average ratio 0.7 in the trailing 20 bars
ScenarioSeries(n) ==
    /\ ~df.none
    /\ df.columns = AllColumns
    /\ Len(df.rows) = n
    /\ Cardinality(UpDates) = 3
    /\ Cardinality(DownDates) = 3
    /\ Mean(UpDates, [d \in UpDates |-> SeededRatio(d)]) = R(16, 10)
    /\ Mean(DownDates, [d \in DownDates |-> SeededRatio(d)]) = R(7, 10)

DefaultVolumeAnalyzed == Analyzed /\ strat.kind = "V" /\ strat.days_to_analyze = DefaultDays

C12_RatioDefinedOnEveryAnalysedBar ==
    VolumeAnalyzed =>
        LET bars == analysis_rows(strat, df)
            ratio == volume_ratio(bars)
        IN  /\ Len(bars) = strat.days_to_analyze
            /\ \A i \in 1..Len(bars) :
                  /\ ~IsNaN(ratio[i])
                  /\ ratio[i] = SeededRatio(bars[i].trade_date)

(***************************************************************************)
(* Properties of the ScoringEngine                                         *)
(***************************************************************************)
Scored == out.op = "score"
Composite == out.outcome.value
AllResults == out.args.strategy_results
FilterNameSet ==
    IF out.args.filter_strategy_names.given
    THEN {out.args.filter_strategy_names.names[i] : i \in 1..Len(out.args.filter_strategy_names.names)}
    ELSE {}
\* the verdicts of the strategies that are not named as filters, in verdict order
ScoringItems == SelectSeq(AllResults, LAMBDA item : item.name \notin FilterNameSet)
ScoringScores == [i \in 1..Len(ScoringItems) |-> ScoringItems[i].value.score]
WeightOf(name) ==
    IF out.args.strategy_weights.given THEN Get(out.args.strategy_weights.dict, name, I(1)) ELSE I(1)
ScoringWeights == [i \in 1..Len(ScoringItems) |-> WeightOf(ScoringItems[i].name)]
SimpleMean(scores) == IF scores = <<>> THEN I(0) ELSE RDiv(SumSeq(scores), I(Len(scores)))

\* C13: the strategies named in filter_strategy_names are left out of total_score (the simple
\* mean of the other strategies' scores), weighted_score (it is what the call gives without
\* the filter verdicts), strategy_scores and strategy_weights, and strategy_results keeps
\* the verdicts of all strategies
C13_FiltersExcludedFromScores ==
    (Scored /\ ~out.outcome.raises) =>
        /\ Composite.total_score = SimpleMean(ScoringScores)
        /\ Composite.weighted_score =
               calculate_stock_score(engine, "S", ScoringItems, out.args.strategy_weights,
                                     NoNames).value.weighted_score
        /\ Keys(Composite.strategy_scores) \cap FilterNameSet = {}
        /\ Keys(Composite.strategy_weights) \cap FilterNameSet = {}
        /\ AllResults # <<>> =>
              Composite.strategy_scores =
                  [i \in 1..Len(ScoringItems) |-> Item(ScoringItems[i].name, ScoringScores[i])]
        /\ Composite.strategy_results = AllResults

C13_Witness ==
    /\ Scored
    /\ ~out.outcome.raises
    /\ Len(AllResults) = 2
    /\ AllResults[1].name \in FilterNameSet
    /\ AllResults[2].name \notin FilterNameSet
    /\ AllResults[1].value.score # AllResults[2].value.score
    /\ Composite.total_score = AllResults[2].value.score
    /\ AllResults[1].name \in Keys(Composite.strategy_results)

\* C14: under weighted_average, weighted_score = sum(score*weight) / sum(weight) over the
\* scoring strategies, the simple mean when the weights add up to 0; with equal weights it
\* is total_score, and scores 80 and 60 with equal weights give 70 for both
C14_WeightedAverage ==
    (Scored /\ engine.scoring_method = "weighted_average" /\ ScoringItems # <<>>) =>
        /\ ~out.outcome.raises
        /\ Composite.weighted_score =
               IF SumSeq(ScoringWeights) = I(0) THEN SimpleMean(ScoringScores)
               ELSE RDiv(SumSeq([i \in 1..Len(ScoringItems) |->
                                     RMul(ScoringScores[i], ScoringWeights[i])]),
                         SumSeq(ScoringWeights))
        /\ (\A i \in 1..Len(ScoringItems) : ScoringWeights[i] = ScoringWeights[1]) =>
               Composite.weighted_score = Composite.total_score
        /\ (ScoringScores = <<I(80), I(60)>> /\ ScoringWeights[1] = ScoringWeights[2]) =>
               Composite.weighted_score = I(70) /\ Composite.total_score = I(70)

C14_Witness ==
    /\ Scored
    /\ engine.scoring_method = "weighted_average"
    /\ ScoringScores = <<I(80), I(60)>>
    /\ ScoringWeights = <<R(3, 5), R(3, 5)>>
    /\ Composite.weighted_score = I(70)
    /\ Composite.total_score = I(70)

\* C15: under max_score, weighted_score is the score of the scoring strategy with the highest
\* weight, the first one in verdict order on ties, whatever the other scores; weights
\* 0.4 / 0.6 with scores 50 / 90 give 90
C15_MaxScoreFollowsWeight ==
    (Scored /\ engine.scoring_method = "max_score" /\ ScoringItems # <<>>) =>
        /\ ~out.outcome.raises
        /\ \E i \in 1..Len(ScoringItems) :
              /\ \A k \in 1..Len(ScoringItems) : RLe(ScoringWeights[k], ScoringWeights[i])
              /\ \A k \in 1..(i - 1) : ScoringWeights[k] # ScoringWeights[i]
              /\ Composite.weighted_score = ScoringScores[i]
        /\ (ScoringWeights = <<R(2, 5), R(3, 5)>> /\ ScoringScores = <<I(50), I(90)>>) =>
               Composite.weighted_score = I(90)

C15_Witness ==
    /\ Scored
    /\ engine.scoring_method = "max_score"
    /\ ScoringWeights = <<R(3, 5), R(3, 5)>>
    /\ ScoringScores = <<I(50), I(90)>>
    /\ Composite.weighted_score = I(50)

\* C16: under multiplicative, weighted_score is 0 whenever a scoring strategy's score is <= 0
\* and otherwise the weighted geometric mean 100 * (prod (score/100)^weight)^(1/sum(weight)),
\* which is the common score when all scores are equal
C16_MultiplicativeGeometricMean ==
    (Scored /\ engine.scoring_method = "multiplicative" /\ ScoringItems # <<>>) =>
        /\ ~out.outcome.raises
        /\ IF \E i \in 1..Len(ScoringItems) : RLe(ScoringScores[i], I(0))
           THEN Composite.weighted_score = I(0)
           ELSE /\ Composite.weighted_score = GeometricMean(ScoringScores, ScoringWeights)
                /\ (\A i \in 1..Len(ScoringItems) : ScoringScores[i] = ScoringScores[1]) =>
                       Composite.weighted_score = ScoringScores[1]

Ranked == out.op = "rank"
Ranking == out.outcome.value
RankInput == out.args.stock_scores
\* the entry of the ranking that holds the stock with this code, 0 if it was removed
PlaceOf(code) ==
    IF \E i \in 1..Len(Ranking) : Ranking[i].stock_score.stock_code = code
    THEN CHOOSE i \in 1..Len(Ranking) : Ranking[i].stock_score.stock_code = code
    ELSE 0
\* the score of a StockScore under a sort key
SortScore(x, sort_by) ==
    CASE sort_by = "total_score" -> x.total_score
      [] sort_by = "weighted_score" -> x.weighted_score
      [] sort_by = "qualified_count" -> I(Len(x.qualified_strategies))
      [] sort_by = "confidence" -> x.confidence
MinQualified ==
    IF out.args.min_qualified_strategies.given THEN out.args.min_qualified_strategies.count
    ELSE engine.min_qualified_strategies

\* C17: for each of the four sort keys, rank_stocks removes exactly the StockScores whose
\* score under the sort key is below min_score or whose number of qualified strategies is
\* below min_qualified_strategies
C17_RemovesBelowMinimum ==
    Ranked =>
        /\ Len(Ranking) <= Len(RankInput)
        /\ \A i \in 1..Len(RankInput) :
              (PlaceOf(RankInput[i].stock_code) = 0) <=>
                  \/ RLt(SortScore(RankInput[i], out.args.sort_by), out.args.min_score)
                  \/ Len(RankInput[i].qualified_strategies) < MinQualified

\* a >= b, resp. a = b, under the sort key (qualified_count, then weighted_score, for the
\* key qualified_count)
KeyAtLeast(a, b, sort_by) ==
    IF sort_by = "qualified_count"
    THEN \/ Len(a.qualified_strategies) > Len(b.qualified_strategies)
         \/ /\ Len(a.qualified_strategies) = Len(b.qualified_strategies)
            /\ RGe(a.weighted_score, b.weighted_score)
    ELSE RGe(SortScore(a, sort_by), SortScore(b, sort_by))
KeyEqual(a, b, sort_by) == KeyAtLeast(a, b, sort_by) /\ KeyAtLeast(b, a, sort_by)

\* C18: the ranking is sorted descending by the sort key, entries with equal keys keep their
\* input order, and the ranks are 1, 2, ..., n in the sorted order
C18_SortedStableDenseRanks ==
    Ranked =>
        /\ \A i \in 1..Len(Ranking) :
              /\ Ranking[i].rank = i
              /\ \E k \in 1..Len(RankInput) : RankInput[k] = Ranking[i].stock_score
        /\ \A i, j \in 1..Len(Ranking) :
              i < j =>
                  /\ KeyAtLeast(Ranking[i].stock_score, Ranking[j].stock_score, out.args.sort_by)
                  /\ KeyEqual(Ranking[i].stock_score, Ranking[j].stock_score, out.args.sort_by) =>
                         Ranking[i].stock_score.stock_code < Ranking[j].stock_score.stock_code

C18_Witness ==
    /\ Ranked
    /\ Len(Ranking) = 3
    /\ Ranking[1].stock_score.stock_code = 3
    /\ Ranking[2].stock_score.stock_code = 1
    /\ Ranking[3].stock_score.stock_code = 2
    /\ KeyEqual(Ranking[2].stock_score, Ranking[3].stock_score, out.args.sort_by)
    /\ Ranking[3].rank = 3

\* C19: ranking the StockScores of a ranked list again, in ranked order and with the same
\* parameters, gives the same entries with the same ranks
C19_RankingIdempotent == (out.op = "rerank") => Ranking = out.args.previous

C19_Witness ==
    /\ out.op = "rerank"
    /\ Len(out.args.previous) = 2
    /\ out.args.previous[1].stock_score.stock_code = 3
    /\ out.args.previous[2].stock_score.stock_code = 1
    /\ Ranking = out.args.previous

\* the call recorded in out was given an argument its setter has to reject
InvalidMethod == out.op = "set_scoring_method" /\ out.args.value \notin ValidMethods
NegativeCount == out.op = "set_min_qualified_strategies" /\ out.args.value < 0
NegativeWeight == out.op = "set_weight" /\ RLt(out.args.value, I(0))
NegativeStrategyWeight == out.op = "set_strategy_weight" /\ RLt(out.args.value, I(0))
Rejected == out.outcome.raises /\ out.outcome.error = "ValueError"

\* C20 as stated: set_scoring_method with an unknown name, set_weight and the registry's
\* set_strategy_weight with a negative weight, and set_min_qualified_strategies with a negative
\* count all raise and leave the stored value unchanged
C20_Original ==
    /\ InvalidMethod => Rejected /\ engine.scoring_method = out.args.before
    /\ NegativeCount => Rejected /\ engine.min_qualified_strategies = out.args.before
    /\ NegativeWeight => Rejected /\ strat.weight = out.args.before
    /\ NegativeStrategyWeight => Rejected /\ strategies = out.args.before

\* C20: set_scoring_method with an unknown name, set_weight with a negative weight,
\* set_strategy_weight with a negative weight for a registered strategy, and
\* set_min_qualified_strategies with a negative count raise ValueError and leave the stored
\* value unchanged; set_strategy_weight for a name that is not registered does not raise and
\* changes nothing
C20_SettersRejectInvalidArguments ==
    /\ InvalidMethod => Rejected /\ engine.scoring_method = out.args.before
    /\ NegativeCount => Rejected /\ engine.min_qualified_strategies = out.args.before
    /\ NegativeWeight => Rejected /\ strat.weight = out.args.before
    /\ NegativeStrategyWeight =>
          /\ strategies = out.args.before
          /\ Rejected <=> HasStrategy(out.args.before, out.args.name)

\* a negative weight for a registered strategy whose weight had been set to 2 before
C20_Witness ==
    /\ NegativeStrategyWeight
    /\ out.args.name = "VolumePattern"
    /\ Rejected
    /\ get_strategy(strategies, "VolumePattern").weight = I(2)
    /\ engine.scoring_method = "max_score"
    /\ engine.min_qualified_strategies = 2

\* C21: every strategy held by the registry has a weight >= 0, after any sequence of
\* strategy construction, registration, set_weight and set_strategy_weight calls
C21_RegisteredWeightsNonNegative ==
    \A i \in 1..Len(strategies) : RGe(strategies[i].weight, I(0))

KDJDone == out.op = "kdj"
KDJInput == out.args.data
KDJOutput == out.outcome.value
Defined(x) == ~IsNaN(x)

\* C22: for every input series _calculate_kdj returns a series of the same length, ordered
\* ascending by trade date, holding the input bars, in which K, D and J are defined (not NaN)
\* for every bar, the first included
C22_KDJDefinedOnEveryBar ==
    KDJDone =>
        /\ ~out.outcome.raises
        /\ Len(KDJOutput) = Len(KDJInput)
        /\ \A i, j \in 1..Len(KDJOutput) : i < j => KDJOutput[i].trade_date < KDJOutput[j].trade_date
        /\ \A i \in 1..Len(KDJInput) : \E j \in 1..Len(KDJOutput) :
              /\ KDJOutput[j].trade_date = KDJInput[i].trade_date
              /\ KDJOutput[j].close = KDJInput[i].close
        /\ \A i \in 1..Len(KDJOutput) :
              Defined(KDJOutput[i].K) /\ Defined(KDJOutput[i].D) /\ Defined(KDJOutput[i].J)

\* the rolling window of bar i of the sorted series has one price: max high = min low
FlatWindow(rows, i) ==
    ColumnMax(rows, "high", WindowStart(i), i) = ColumnMin(rows, "low", WindowStart(i), i)

\* C23: when the highest high equals the lowest low over the rolling window of a bar, the
\* computation does not raise, rsv is 0 for that bar, and K, D and J of that bar and of all
\* later bars are defined
C23_FlatWindowGivesZeroRsv ==
    KDJDone =>
        /\ ~out.outcome.raises
        /\ \A i \in 1..Len(KDJOutput) :
              FlatWindow(sort_values(KDJInput), i) =>
                  /\ rsv(sort_values(KDJInput), i) = I(0)
                  /\ \A j \in i..Len(KDJOutput) :
                        Defined(KDJOutput[j].K) /\ Defined(KDJOutput[j].D) /\ Defined(KDJOutput[j].J)

AnalyzedStocks == out.op = "analyze_stocks" /\ ~out.outcome.raises
\* the verdicts the layered evaluation gave for the stock with this code
VerdictsOf(code) ==
    DictItems(analyze_stock_with_filtering(out.args.before, out.args.strategy_names,
                                           out.args.oracles[code]))

\* C24: after analyze_stocks every security in the ranked list passed every enabled filter
\* strategy; a security whose evaluation stopped at a failed filter has no rank
C24_RankedPassedEveryFilter ==
    AnalyzedStocks =>
        \A i \in 1..Len(out.outcome.value.ranked_stocks) :
            LET code == out.outcome.value.ranked_stocks[i].stock_score.stock_code
                filters == get_filter_strategies(out.args.before)
            IN  \A k \in 1..Len(filters) :
                    /\ filters[k].name \in Keys(VerdictsOf(code))
                    /\ passes_filter(filters[k], Get(VerdictsOf(code), filters[k].name, NoValue))

\* C25: when analyze_j_under_value or analyze_j_with_volume_pattern returns or raises, the
\* registry holds the same strategies as before the call
C25_RegistryRestored ==
    out.op \in {"analyze_j_under_value", "analyze_j_with_volume_pattern"} =>
        strategies = out.args.before

\* C30: the ranked list analyze_j_with_volume_pattern returns carries the ranks 1, 2, ..., n
\* in list order
C30_CombinedRanksDense ==
    (out.op = "analyze_j_with_volume_pattern" /\ ~out.outcome.raises) =>
        \A i \in 1..Len(out.outcome.value.ranked_stocks) :
            out.outcome.value.ranked_stocks[i].rank = i

Updated == out.op = "update_today_data"
UpdateEvents == out.outcome.value
\* the position of the first event of a kind in the run, 0 if there is none
FirstEvent(kind) ==
    IF \E i \in 1..Len(UpdateEvents) : UpdateEvents[i][1] = kind
    THEN CHOOSE i \in 1..Len(UpdateEvents) :
            /\ UpdateEvents[i][1] = kind
            /\ \A j \in 1..(i - 1) : UpdateEvents[j][1] # kind
    ELSE 0
\* the run had at most 2 missing dates, today's directory did not exist before it, and at
\* least one downloaded day was processed
IncrementalRun ==
    /\ Updated
    /\ Len(MissingDates(out.args.before, out.args.today)) \in 1..2
    /\ ~out.args.before[out.args.today].exists
    /\ FirstEvent("save") # 0

\* C26: in such a run the files of the latest data directory are copied into today's
\* directory before any downloaded day is processed, so today's file of every stock holds
\* the rows of its file in the latest directory
C26_HistoryCopiedBeforeProcessing ==
    IncrementalRun =>
        /\ FirstEvent("copy") # 0
        /\ FirstEvent("copy") < FirstEvent("save")
        /\ \A s \in Stocks :
              out.args.before[find_latest_data_directory(out.args.before)].files[s].rows
                  \subseteq disk[out.args.today].files[s].rows

\* C27: successive values of last_call_time are at least min_interval apart, for any number
\* of threads, so k + 1 successive grants span at least k * min_interval and any window of
\* one minute holds at most calls_per_minute grants
C27_GrantsSpacedByMinInterval ==
    /\ \A i, j \in 1..Len(granted) :
          i < j => granted[j] - granted[i] >= (j - i) * limiter.min_interval
    /\ \A start \in 0..MaxTime :
          Cardinality({i \in 1..Len(granted) : start <= granted[i] /\ granted[i] < start + Minute})
              <= API_CALLS_PER_MINUTE
    /\ limiter.call_count = Len(granted)
    /\ granted # <<>> => limiter.last_call_time = granted[Len(granted)]

\* two threads were inside wait_if_needed at once, the second had to sleep, and three grants
\* followed each other at exactly min_interval
C27_Witness ==
    /\ Len(granted) >= 3
    /\ granted[2] = granted[1] + limiter.min_interval
    /\ granted[3] = granted[2] + limiter.min_interval
    /\ \E t \in Threads : threads[t].pc = "sleeping" /\ threads[t].sleep_time > 0
    /\ \E t \in Threads : threads[t].pc = "outside"

\* a score in [0, 100]; a weighted geometric mean left as a power product lies between its bases
ScoreInRange(x) ==
    IF Len(x) = 2 THEN RLe(I(0), x) /\ RLe(x, I(100))
    ELSE \A k \in 1..(Len(x) \div 4) :
            RLt(I(0), <<x[4 * k - 3], x[4 * k - 2]>>) /\ RLe(<<x[4 * k - 3], x[4 * k - 2]>>, I(1))

\* the weights handed to the call are all >= 0
NonNegativeWeights ==
    out.args.strategy_weights.given =>
        \A i \in 1..Len(out.args.strategy_weights.dict) :
            RGe(out.args.strategy_weights.dict[i].value, I(0))

\* C28: for a non-empty set of valid verdicts and non-negative weights, calculate_stock_score
\* does not raise under weighted_average, multiplicative and max_score, also when the weights
\* of the scoring strategies add up to 0, and total_score and weighted_score lie in [0, 100]
C28_ScoringNeverRaises ==
    (Scored /\ engine.scoring_method \in ValidMethods /\ AllResults # <<>> /\ NonNegativeWeights) =>
        /\ ~out.outcome.raises
        /\ ScoreInRange(Composite.total_score)
        /\ ScoreInRange(Composite.weighted_score)

\* C29: in every verdict the volume/price strategy produces from a window with enough up days
\* and down days, is_qualified is the conjunction of the three flags of
\* details.condition_scores, also when an average volume ratio is undefined
C29_QualifiedIsConjunctionOfFlags ==
    (VolumeAnalyzed /\ HasAnalysis) =>
        LET flags == Verdict.details.condition_scores
        IN  Verdict.is_qualified <=>
                (flags.volume_contrast /\ flags.up_day_volume /\ flags.down_day_volume)

====
